---- MODULE Spec2Model ----
(***************************************************************************)
(* Content segmentation of src/core/content_parser.py over the data model  *)
(* of src/models/exam_document.py, the equation writer of                  *)
(* src/core/hwpx_writer.py, the LaTeX to HWP equation script converter of  *)
(* src/core/latex_to_hwpeq.py and the conversion worker of                 *)
(* src/gui/main_window.py.                                                 *)
(*                                                                         *)
(* A Python str is modelled as a sequence of one-character strings.  A     *)
(* character that cannot stand in a string here is written by its code     *)
(* point: "U+AC00" is the Hangul syllable GA, "U+00D7" the multiplication  *)
(* sign, "U+0060" the backtick, "U+000C" the form feed.                    *)
(***************************************************************************)
EXTENDS Integers, Sequences, FiniteSets, TLC

VARIABLES
    text,      \* the str argument of the call
    arg,       \* the other part of the argument (a block type, a "type" string)
    fn,        \* the function that was called, "init" before the call
    result,    \* what the call returned or raised
    pc,        \* where each thread is in its code
    frames,    \* the local variables of each thread
    worker,    \* the fields of the ConversionWorker the threads share
    signals    \* the Qt signals emitted so far, in order

vars == <<text, arg, fn, result, pc, frames, worker, signals>>

\* What the threads have
threadVars == <<pc, frames, worker, signals>>

\* No thread runs: the call is made on the calling thread alone.
NoThreads ==
    /\ pc = <<>>
    /\ frames = <<>>
    /\ worker = <<>>
    /\ signals = <<>>

----------------------------------------------------------------------------
(* Character classes of the regular expressions and of str.strip().        *)

Latin ==
    {"a","b","c","d","e","f","g","h","i","j","k","l","m","n","o","p","q","r",
     "s","t","u","v","w","x","y","z","A","B","C","D","E","F","G","H","I","J",
     "K","L","M","N","O","P","Q","R","S","T","U","V","W","X","Y","Z"}

Digit == {"0","1","2","3","4","5","6","7","8","9"}

AlNum == Latin \cup Digit

\* [가-힣]: the syllables the inputs below use.
Hangul ==
    {"U+AC00","U+B294","U+C815","U+C218","U+C5D0","U+C11C","U+C633","U+C9C0",
     "U+C54A","U+C740","U+AC83"}

\* [=><+\-×÷≤≥≠^_]
MathOps ==
    {"=",">","<","+","-","U+00D7","U+00F7","U+2264","U+2265","U+2260","^","_"}

\* \s of the patterns and the characters str.strip() removes.
Whitespace == {" ", "\t", "\n"}

\* Mutant: the square bracket is not counted (the docstring names only the
\* round and the curly one).
OpenBrackets_NoSquare == {"(", "{"}

OpenBrackets == {"(", "{", "["}

CloseBrackets == {")", "}", "]"}

----------------------------------------------------------------------------
(* Sequence helpers.                                                       *)

Max(a, b) == IF a >= b THEN a ELSE b

\* s[a:b] of Python for the 1-based positions a..b of s.
Slice(s, a, b) == IF a > b THEN <<>> ELSE SubSeq(s, a, b)

\* The first position j >= i of s whose character is not in class; Len(s)+1 if none.
RECURSIVE SkipWhile(_, _, _)
SkipWhile(s, i, class) ==
    IF i > Len(s) \/ s[i] \notin class THEN i ELSE SkipWhile(s, i + 1, class)

\* The last position j <= i of s whose character is not in class; 0 if none.
RECURSIVE SkipBack(_, _, _)
SkipBack(s, i, class) ==
    IF i < 1 \/ s[i] \notin class THEN i ELSE SkipBack(s, i - 1, class)

\* str.strip()
Strip(s) ==
    LET a == SkipWhile(s, 1, Whitespace)
        b == SkipBack(s, Len(s), Whitespace)
    IN  Slice(s, a, b)

\* needle in s, for a needle of one or two characters
Contains1(s, c) == \E i \in 1..Len(s) : s[i] = c

Contains2(s, c, d) == \E i \in 1..(Len(s) - 1) : s[i] = c /\ s[i + 1] = d

RECURSIVE Flatten(_)
Flatten(ss) == IF ss = <<>> THEN <<>> ELSE Head(ss) \o Flatten(Tail(ss))

----------------------------------------------------------------------------
(* _split_at_top_level_commas                                              *)

\* Mutant: the counter is not clamped at zero.
CloseDepth_NoClamp(depth) == depth - 1

\* depth = max(0, depth - 1)
CloseDepth(depth) == Max(0, depth - 1)

RECURSIVE SplitLoop(_, _, _, _, _)
SplitLoop(s, i, depth, current, parts) ==
    IF i > Len(s) THEN Append(parts, current)
    ELSE LET ch == s[i] IN
         IF ch \in OpenBrackets
         THEN SplitLoop(s, i + 1, depth + 1, Append(current, ch), parts)
         ELSE IF ch \in CloseBrackets
         THEN SplitLoop(s, i + 1, CloseDepth(depth), Append(current, ch), parts)
         ELSE IF ch = "," /\ depth = 0
         THEN SplitLoop(s, i + 1, depth, <<>>, Append(parts, current))
         ELSE SplitLoop(s, i + 1, depth, Append(current, ch), parts)

split_at_top_level_commas(s) == SplitLoop(s, 1, 0, <<>>, <<>>)

----------------------------------------------------------------------------
(* The data model: ContentType and ContentBlock of models/exam_document.py. *)

\* The members of the enum ContentType.
ContentTypeMembers == {"TEXT", "EQUATION", "EQUATION_BLOCK", "IMAGE"}

\* The fields of the dataclass ContentBlock, the keywords its __init__ takes.
ContentBlockFields == {"type", "value", "hwp_equation"}

\* What a call produces: a list of blocks, one block, None, or an exception.
RetList(blocks) == [ret |-> "list", exc |-> "", items |-> blocks]

RetBlock(block) == [ret |-> "block", exc |-> "", items |-> <<block>>]

RetNone == [ret |-> "None", exc |-> "", items |-> <<>>]

Raise(e) == [ret |-> "raise", exc |-> e, items |-> <<>>]

\* ContentBlock(type=..., value=...): the block, as the dataclass builds it.
Block(type, value) == [type |-> type, value |-> value]

\* ContentBlock(type=..., value=..., <extra>=...): __init__ rejects a keyword
\* that is no field of the dataclass.
NewContentBlock(type, value, extra) ==
    IF extra \subseteq ContentBlockFields
    THEN RetBlock(Block(type, value))
    ELSE Raise("TypeError")

\* ContentType.<member>: the enum rejects a name that is no member.
EnumLookupFails(names) == ~(names \subseteq ContentTypeMembers)

----------------------------------------------------------------------------
(* _split_comma_equations                                                  *)

\* valid = [p.strip() for p in parts if p.strip()]
RECURSIVE ValidParts(_)
ValidParts(parts) ==
    IF parts = <<>> THEN <<>>
    ELSE LET p == Strip(Head(parts)) IN
         IF p # <<>> THEN <<p>> \o ValidParts(Tail(parts))
         ELSE ValidParts(Tail(parts))

\* Mutant: the separator test is off by one (no separator before the second part).
RECURSIVE EmitParts_OffByOne(_, _, _)
EmitParts_OffByOne(valid, i, out) ==
    IF i > Len(valid) THEN out
    ELSE LET sep == IF i > 2 THEN <<Block("TEXT", <<",", " ">>)>> ELSE <<>>
         IN  EmitParts_OffByOne(valid, i + 1,
                                out \o sep \o <<Block("EQUATION", valid[i])>>)

\* The inner loop over valid: a ", " text block before every part but the first.
RECURSIVE EmitParts(_, _, _)
EmitParts(valid, i, out) ==
    IF i > Len(valid) THEN out
    ELSE LET sep == IF i > 1 THEN <<Block("TEXT", <<",", " ">>)>> ELSE <<>>
         IN  EmitParts(valid, i + 1, out \o sep \o <<Block("EQUATION", valid[i])>>)

RECURSIVE CommaLoop(_, _)
CommaLoop(blocks, out) ==
    IF blocks = <<>> THEN out
    ELSE LET block == Head(blocks)
             valid == ValidParts(split_at_top_level_commas(block.value))
         IN  IF block.type = "EQUATION" /\ Contains1(block.value, ",")
                /\ Len(valid) > 1
             THEN CommaLoop(Tail(blocks), EmitParts(valid, 1, out))
             ELSE CommaLoop(Tail(blocks), Append(out, block))

split_comma_equations(blocks) == CommaLoop(blocks, <<>>)

----------------------------------------------------------------------------
(* _MATH_EXPR_RE and _split_mixed_text_equation                            *)

\* if len(expr) > 20
MaxExprLen == 20

\* Mutant: no white space is allowed before the operator.
RECURSIVE MathTail_NoSpaceBeforeOp(_, _)
MathTail_NoSpaceBeforeOp(s, e) ==
    LET a == e + 1 IN
    IF a <= Len(s) /\ s[a] \in MathOps
    THEN LET b == SkipWhile(s, a + 1, Whitespace)
             c == SkipWhile(s, b, AlNum)
         IN  IF c > b THEN MathTail_NoSpaceBeforeOp(s, c - 1) ELSE e
    ELSE e

\* (?:\s*[op]\s*[a-zA-Z0-9]+)* after a match that ends at position e: the
\* position the repetition ends at.  The three classes are disjoint, so the
\* greedy choice is the only one that can match.
RECURSIVE MathTail(_, _)
MathTail(s, e) ==
    LET a == SkipWhile(s, e + 1, Whitespace) IN
    IF a <= Len(s) /\ s[a] \in MathOps
    THEN LET b == SkipWhile(s, a + 1, Whitespace)
             c == SkipWhile(s, b, AlNum)
         IN  IF c > b THEN MathTail(s, c - 1) ELSE e
    ELSE e

\* _MATH_EXPR_RE matched at position i: the position of the last character of
\* the match, 0 when there is no match at i.  The lookahead is tried at the end
\* of a greedy run, where the next character is no [a-zA-Z0-9].
MathMatchAt(s, i) ==
    IF i > 1 /\ s[i - 1] \in Latin THEN 0
    ELSE IF s[i] \notin AlNum THEN 0
    ELSE LET e == MathTail(s, SkipWhile(s, i, AlNum) - 1) IN
         IF e < Len(s) /\ s[e + 1] \in Latin THEN 0 ELSE e

HasHangul(s) == \E i \in 1..Len(s) : s[i] \in Hangul

HasLatin(s) == \E i \in 1..Len(s) : s[i] \in Latin

\* str.isdigit()
IsDigitStr(s) == s # <<>> /\ \A i \in 1..Len(s) : s[i] \in Digit

\* Mutant: the text between two matches is stripped.
TextBlockIf_Stripped(value) ==
    IF Strip(value) # <<>> THEN <<Block("TEXT", Strip(value))>> ELSE <<>>

\* if before: blocks.append(ContentBlock(type=ContentType.TEXT, value=before))
TextBlockIf(value) == IF value # <<>> THEN <<Block("TEXT", value)>> ELSE <<>>

\* Mutant: the test for a lone digit is missing.
RejectExpr_NoDigitTest(expr) ==
    \/ Len(expr) > MaxExprLen
    \/ HasHangul(expr)

\* The three tests of the loop body that skip a match (continue).
RejectExpr(expr) ==
    \/ Len(expr) > MaxExprLen
    \/ HasHangul(expr)
    \/ (IsDigitStr(expr) /\ Len(expr) = 1)

\* The finditer loop: pos is where the next search starts, last_end the
\* position after the last accepted match.
RECURSIVE MixedLoop(_, _, _, _)
MixedLoop(s, pos, last_end, blocks) ==
    IF pos > Len(s)
    THEN blocks \o TextBlockIf(Slice(s, last_end, Len(s)))
    ELSE LET e == MathMatchAt(s, pos) IN
         IF e = 0 THEN MixedLoop(s, pos + 1, last_end, blocks)
         ELSE LET expr == Strip(Slice(s, pos, e)) IN
              IF RejectExpr(expr)
              THEN MixedLoop(s, e + 1, last_end, blocks)
              ELSE MixedLoop(s, e + 1, e + 1,
                             blocks \o TextBlockIf(Slice(s, last_end, pos - 1))
                                    \o <<Block("EQUATION", expr)>>)

\* Mutant: the test for a Hangul syllable in the text is missing.
split_mixed_text_equation_NoHangulGuard(s) ==
    IF ~HasLatin(s) THEN <<Block("TEXT", s)>>
    ELSE LET blocks == MixedLoop(s, 1, 1, <<>>) IN
         IF Len(blocks) > 1 THEN blocks ELSE <<Block("TEXT", s)>>

split_mixed_text_equation(s) ==
    IF ~HasHangul(s) THEN <<Block("TEXT", s)>>
    ELSE IF ~HasLatin(s) THEN <<Block("TEXT", s)>>
    ELSE LET blocks == MixedLoop(s, 1, 1, <<>>) IN
         IF Len(blocks) > 1 THEN blocks ELSE <<Block("TEXT", s)>>

----------------------------------------------------------------------------
(* _INLINE_LATEX_RE and _split_inline_latex                                *)

\* (?<!\$)\$(?!\$) at position i
DollarAt(s, i) ==
    /\ i >= 1 /\ i <= Len(s)
    /\ s[i] = "$"
    /\ (i = 1 \/ s[i - 1] # "$")
    /\ (i = Len(s) \/ s[i + 1] # "$")

\* (.+?) followed by the closing delimiter: the first position j of a closing
\* delimiter such that the group, the characters after the opener up to j - 1,
\* is not empty; 0 when there is none.  "." matches no line break, so the group
\* cannot grow past one.
RECURSIVE LazyDollarClose(_, _)
LazyDollarClose(s, j) ==
    IF j > Len(s) \/ s[j - 1] = "\n" THEN 0
    ELSE IF DollarAt(s, j) THEN j
    ELSE LazyDollarClose(s, j + 1)

\* The position of the closing delimiter of a match that starts at i, or 0.
InlineMatchAt(s, i) == IF DollarAt(s, i) THEN LazyDollarClose(s, i + 2) ELSE 0

RECURSIVE InlineLoop(_, _, _, _)
InlineLoop(s, pos, last_end, blocks) ==
    IF pos > Len(s)
    THEN blocks \o TextBlockIf(Slice(s, last_end, Len(s)))
    ELSE LET j == InlineMatchAt(s, pos) IN
         IF j = 0 THEN InlineLoop(s, pos + 1, last_end, blocks)
         ELSE LET latex == Strip(Slice(s, pos + 1, j - 1))
                  eq == IF latex # <<>> THEN <<Block("EQUATION", latex)>> ELSE <<>>
              IN  InlineLoop(s, j + 1, j + 1,
                             blocks \o TextBlockIf(Slice(s, last_end, pos - 1)) \o eq)

split_inline_latex(s) ==
    LET blocks == InlineLoop(s, 1, 1, <<>>) IN
    IF blocks # <<>> THEN blocks ELSE <<Block("TEXT", s)>>

----------------------------------------------------------------------------
(* _UNDERLINE_RE and _split_underline_markup                               *)

\* "__" at position i
MarkerAt(s, i) == i >= 1 /\ i < Len(s) /\ s[i] = "_" /\ s[i + 1] = "_"

\* (.+?)__ : the first position j of a closing marker with a non-empty group
\* before it, 0 when there is none.
RECURSIVE LazyMarkerClose(_, _)
LazyMarkerClose(s, j) ==
    IF j > Len(s) \/ s[j - 1] = "\n" THEN 0
    ELSE IF MarkerAt(s, j) THEN j
    ELSE LazyMarkerClose(s, j + 1)

\* The position of the closing marker of a match that starts at i, or 0.
UnderlineMatchAt(s, i) == IF MarkerAt(s, i) THEN LazyMarkerClose(s, i + 3) ELSE 0

\* The keywords of ContentBlock(type=ContentType.TEXT, value=inner, underline=True)
UnderlineKeywords == {"type", "value", "underline"}

\* The finditer loop.  The block of a marker pair is built with the keyword
\* underline; what that call raises ends the function.
RECURSIVE UnderlineLoop(_, _, _, _)
UnderlineLoop(s, pos, last_end, blocks) ==
    IF pos > Len(s)
    THEN RetList(blocks \o TextBlockIf(Slice(s, last_end, Len(s))))
    ELSE LET j == UnderlineMatchAt(s, pos) IN
         IF j = 0 THEN UnderlineLoop(s, pos + 1, last_end, blocks)
         ELSE LET inner == Slice(s, pos + 2, j - 1)
                  made == NewContentBlock("TEXT", inner, UnderlineKeywords)
              IN  IF inner # <<>> /\ made.ret = "raise" THEN made
                  ELSE UnderlineLoop(s, j + 2, j + 2,
                           blocks \o TextBlockIf(Slice(s, last_end, pos - 1))
                                  \o (IF inner # <<>>
                                      THEN <<[type |-> "TEXT", value |-> inner,
                                              underline |-> TRUE]>>
                                      ELSE <<>>))

split_underline_markup(s) ==
    LET r == UnderlineLoop(s, 1, 1, <<>>) IN
    IF r.ret = "raise" THEN r
    ELSE IF r.items # <<>> THEN r ELSE RetList(<<Block("TEXT", s)>>)

----------------------------------------------------------------------------
(* _parse_content_block and _parse_question                                *)

\* The members the dict literal type_map names: building it evaluates each.
TypeMapMembers == {"TEXT", "EQUATION", "EQUATION_BLOCK", "IMAGE", "TABLE"}

\* type_map.get(type_str), TEXT when the key is missing
ContentTypeOf(type_str) ==
    CASE type_str = "text" -> "TEXT"
      [] type_str = "equation" -> "EQUATION"
      [] type_str = "equation_block" -> "EQUATION_BLOCK"
      [] type_str = "image" -> "IMAGE"
      [] type_str = "table" -> "TABLE"
      [] OTHER -> "TEXT"

\* The keywords of ContentBlock(type=ContentType.TABLE, value=value, rows=rows)
TableKeywords == {"type", "value", "rows"}

\* The three passes over a block of type content_type, and the block itself
\* when no pass returns more than one block.
SegmentValue(content_type, value) ==
    LET underlined == split_underline_markup(value)
        latex == split_inline_latex(value)
        mixed == split_mixed_text_equation(value)
    IN  IF content_type = "TEXT" /\ Contains2(value, "_", "_")
           /\ underlined.ret = "raise"
        THEN underlined
        ELSE IF content_type = "TEXT" /\ Contains2(value, "_", "_")
                /\ Len(underlined.items) > 1
        THEN underlined
        ELSE IF content_type = "TEXT" /\ Contains1(value, "$") /\ Len(latex) > 1
        THEN RetList(latex)
        ELSE IF content_type = "TEXT" /\ Len(mixed) > 1
        THEN RetList(mixed)
        ELSE NewContentBlock(content_type, value, {"type", "value"})

parse_content_block(type_str, value) ==
    IF value = <<>> /\ type_str # "image" THEN RetNone
    ELSE IF EnumLookupFails(TypeMapMembers) THEN Raise("AttributeError")
    ELSE IF ContentTypeOf(type_str) = "TABLE"
    THEN NewContentBlock("TABLE", value, TableKeywords)
    ELSE SegmentValue(ContentTypeOf(type_str), value)

\* The loop of _parse_question over q_data["contents"], then the comma split.
RECURSIVE ContentsLoop(_, _)
ContentsLoop(contents, out) ==
    IF contents = <<>> THEN RetList(out)
    ELSE LET r == parse_content_block(Head(contents).type, Head(contents).value) IN
         IF r.ret = "raise" THEN r
         ELSE ContentsLoop(Tail(contents), out \o r.items)

parse_question(contents) ==
    LET r == ContentsLoop(contents, <<>>) IN
    IF r.ret = "raise" THEN r ELSE RetList(split_comma_equations(r.items))

----------------------------------------------------------------------------
(* The inputs: every string over a small alphabet up to a length, one       *)
(* alphabet per function, and the strings the documentation names.          *)

MaxLenComma == 4
MaxLenTrim == 5
MaxLenMixed == 4
MaxLenDollar == 5
MaxLenMarker == 6

Strings(alphabet, n) == UNION {[1..k -> alphabet] : k \in 0..n}

CommaAlphabet == {"(", ")", "[", "]", "{", "}", ",", "a"}

TrimAlphabet == {",", " ", "a"}

MixedAlphabet == {"U+AC00", "a", "1", "+", " ", "("}

DollarAlphabet == {"$", "a", " ", "\n"}

MarkerAlphabet == {"_", "a", "\n"}

Letters(n) == [i \in 1..n |-> "a"]

SampleTexts ==
    { \* A=2^6, B=3^6
      <<"A","=","2","^","6",","," ","B","=","3","^","6">>,
      \* f(a,b),[c,d],{e,f}
      <<"f","(","a",",","b",")",",","[","c",",","d","]",",","{","e",",","f","}">>,
      \* ([{a,b}],c),d
      <<"(","[","{","a",",","b","}","]",",","c",")",",","d">>,
      \* (a > 0, b<U+B294> <U+C815><U+C218>)<U+C5D0><U+C11C>
      <<"(","a"," ",">"," ","0",","," ","b","U+B294"," ","U+C815","U+C218",")",
        "U+C5D0","U+C11C">>,
      \* <U+C633><U+C9C0> __<U+C54A><U+C740>__ <U+AC83><U+C740>?
      <<"U+C633","U+C9C0"," ","_","_","U+C54A","U+C740","_","_"," ","U+AC83",
        "U+C740","?">>,
      \* __x__ $y$
      <<"_","_","x","_","_"," ","$","y","$">>,
      \* $x$ <U+AC00> $1$
      <<"$","x","$"," ","U+AC00"," ","$","1","$">>,
      \* a run of 20 and of 21 letters before a Hangul syllable
      Letters(MaxExprLen) \o <<"U+AC00">>,
      Letters(MaxExprLen + 1) \o <<"U+AC00">>,
      \* x = 1 + 2 + 3 + 4 + 5 + 6<U+AC00>, a run of 25 characters
      <<"x"," ","="," ","1"," ","+"," ","2"," ","+"," ","3"," ","+"," ","4"," ",
        "+"," ","5"," ","+"," ","6","U+AC00">> }

Texts ==
    Strings(CommaAlphabet, MaxLenComma)
    \cup Strings(TrimAlphabet, MaxLenTrim)
    \cup Strings(MixedAlphabet, MaxLenMixed)
    \cup Strings(DollarAlphabet, MaxLenDollar)
    \cup Strings(MarkerAlphabet, MaxLenMarker)
    \cup SampleTexts

\* block.type of the block handed to _split_comma_equations
BlockTypes == {"TEXT", "EQUATION", "EQUATION_BLOCK"}

\* block_data["type"] of the OCR record
TypeStrings == {"text", "equation", "table"}

----------------------------------------------------------------------------
(* The state machine: one call of one function on one input.               *)

Init ==
    /\ text \in Texts
    /\ arg = ""
    /\ fn = "init"
    /\ result = RetNone
    /\ NoThreads

Call_split_at_top_level_commas ==
    /\ fn = "init"
    /\ fn' = "_split_at_top_level_commas"
    /\ result' = [ret |-> "parts", exc |-> "", items |-> split_at_top_level_commas(text)]
    /\ UNCHANGED <<text, arg, threadVars>>

Call_split_comma_equations ==
    /\ fn = "init"
    /\ \E type \in BlockTypes :
          /\ arg' = type
          /\ result' = RetList(split_comma_equations(<<Block(type, text)>>))
    /\ fn' = "_split_comma_equations"
    /\ UNCHANGED <<text, threadVars>>

Call_split_mixed_text_equation ==
    /\ fn = "init"
    /\ fn' = "_split_mixed_text_equation"
    /\ result' = RetList(split_mixed_text_equation(text))
    /\ UNCHANGED <<text, arg, threadVars>>

Call_split_inline_latex ==
    /\ fn = "init"
    /\ fn' = "_split_inline_latex"
    /\ result' = RetList(split_inline_latex(text))
    /\ UNCHANGED <<text, arg, threadVars>>

Call_split_underline_markup ==
    /\ fn = "init"
    /\ fn' = "_split_underline_markup"
    /\ result' = split_underline_markup(text)
    /\ UNCHANGED <<text, arg, threadVars>>

Call_parse_content_block ==
    /\ fn = "init"
    /\ \E type_str \in TypeStrings :
          /\ arg' = type_str
          /\ result' = parse_content_block(type_str, text)
    /\ fn' = "_parse_content_block"
    /\ UNCHANGED <<text, threadVars>>

Call_parse_question ==
    /\ fn = "init"
    /\ fn' = "_parse_question"
    /\ result' = parse_question(<<[type |-> "text", value |-> text]>>)
    /\ UNCHANGED <<text, arg, threadVars>>

Next ==
    \/ Call_split_at_top_level_commas
    \/ Call_split_comma_equations
    \/ Call_split_mixed_text_equation
    \/ Call_split_inline_latex
    \/ Call_split_underline_markup
    \/ Call_parse_content_block
    \/ Call_parse_question

Spec == Init /\ [][Next]_vars

----------------------------------------------------------------------------
(* Definitions the properties are stated with.  They do not use the         *)
(* definitions of the functions above.                                      *)

BracketPairs == {<<"(", ")">>, <<"[", "]">>, <<"{", "}">>}

IsOpen(c) == \E p \in BracketPairs : p[1] = c

IsClose(c) == \E p \in BracketPairs : p[2] = c

\* The brackets of s are balanced: every closing bracket closes the last open
\* bracket, which is of its kind, and none stays open.
RECURSIVE BalancedFrom(_, _, _)
BalancedFrom(s, i, stack) ==
    IF i > Len(s) THEN stack = <<>>
    ELSE IF IsOpen(s[i]) THEN BalancedFrom(s, i + 1, <<s[i]>> \o stack)
    ELSE IF IsClose(s[i])
    THEN /\ stack # <<>>
         /\ <<Head(stack), s[i]>> \in BracketPairs
         /\ BalancedFrom(s, i + 1, Tail(stack))
    ELSE BalancedFrom(s, i + 1, stack)

Balanced(s) == BalancedFrom(s, 1, <<>>)

\* Position i of s lies between an opening bracket and the bracket that closes it.
Enclosed(s, i) ==
    \E j \in 1..(i - 1), k \in (i + 1)..Len(s) :
        /\ <<s[j], s[k]>> \in BracketPairs
        /\ Balanced(SubSeq(s, j + 1, k - 1))

TopLevelCommas(s) == {i \in 1..Len(s) : s[i] = "," /\ ~Enclosed(s, i)}

EnclosedCommas(s) == {i \in 1..Len(s) : s[i] = "," /\ Enclosed(s, i)}

RECURSIVE TotalLen(_)
TotalLen(parts) == IF parts = <<>> THEN 0 ELSE Len(Head(parts)) + TotalLen(Tail(parts))

\* The positions of s at which it was cut, for the parts it was cut into.
CutPoints(parts) ==
    {TotalLen(SubSeq(parts, 1, m)) + m : m \in 1..(Len(parts) - 1)}

RECURSIVE JoinComma(_)
JoinComma(parts) ==
    IF Len(parts) <= 1 THEN Flatten(parts)
    ELSE Head(parts) \o <<",">> \o JoinComma(Tail(parts))

SetMin(S) == CHOOSE x \in S : \A y \in S : x <= y

SetMax(S) == CHOOSE x \in S : \A y \in S : x >= y

\* s without its leading and trailing white space.
Trimmed(s) ==
    LET keep == {i \in 1..Len(s) : s[i] \notin {" ", "\t", "\n"}} IN
    IF keep = {} THEN <<>> ELSE SubSeq(s, SetMin(keep), SetMax(keep))

NotBlank(s) == Trimmed(s) # <<>>

\* The trimmed non-empty parts, in order.
TrimmedParts(parts) ==
    LET sel == SelectSeq(parts, NotBlank) IN [i \in 1..Len(sel) |-> Trimmed(sel[i])]

----------------------------------------------------------------------------
(* Properties.                                                              *)

\* C1: for every string whose brackets ( ) { } [ ] are balanced,
\* _split_at_top_level_commas cuts it exactly at the commas no open bracket
\* encloses: the parts joined by "," are the string, every cut is a top-level
\* comma and every top-level comma is a cut.
C1_SplitsExactlyAtTopLevelCommas ==
    (fn = "_split_at_top_level_commas" /\ Balanced(text)) =>
        /\ JoinComma(result.items) = text
        /\ CutPoints(result.items) = TopLevelCommas(text)

\* A balanced string with a top-level comma and a comma inside a square or a
\* curly bracket was split.
C1_Witness ==
    /\ fn = "_split_at_top_level_commas"
    /\ Balanced(text)
    /\ TopLevelCommas(text) # {}
    /\ \E i \in EnclosedCommas(text) : \E j \in 1..(i - 1) : text[j] \in {"[", "{"}
    /\ Len(result.items) = Cardinality(TopLevelCommas(text)) + 1

\* C2: _split_comma_equations replaces an EQUATION block by the k trimmed
\* non-empty top-level parts as EQUATION blocks with a TEXT block ", " between
\* neighbours exactly when k >= 2, and passes the block through otherwise.
C2_CommaSplitOfEquation ==
    (fn = "_split_comma_equations" /\ arg = "EQUATION") =>
        LET valid == TrimmedParts(split_at_top_level_commas(text))
            k == Len(valid)
            out == result.items
        IN  IF k >= 2
            THEN /\ Len(out) = 2 * k - 1
                 /\ \A i \in 1..k : out[2 * i - 1] = [type |-> "EQUATION", value |-> valid[i]]
                 /\ \A i \in 1..(k - 1) : out[2 * i] = [type |-> "TEXT", value |-> <<",", " ">>]
            ELSE out = <<[type |-> "EQUATION", value |-> text]>>

\* Equation("A=2^6, B=3^6") became Equation("A=2^6"), Text(", "), Equation("B=3^6").
C2_Witness ==
    /\ fn = "_split_comma_equations"
    /\ arg = "EQUATION"
    /\ text = <<"A","=","2","^","6",","," ","B","=","3","^","6">>
    /\ result.items = << [type |-> "EQUATION", value |-> <<"A","=","2","^","6">>],
                         [type |-> "TEXT", value |-> <<",", " ">>],
                         [type |-> "EQUATION", value |-> <<"B","=","3","^","6">>] >>

\* The character classes, as the specification words them.
LatinLetter(c) == c \in Latin

Operand(c) == c \in Latin \/ c \in Digit

Operator(c) == c \in MathOps

Blank(c) == c \in {" ", "\t", "\n"}

\* v has the form operand (operator operand)*: it starts and ends with an
\* operand character, and between two neighbouring runs of operand characters
\* stands one operator with white space around it at most.
IsRun(v) ==
    /\ v # <<>>
    /\ Operand(v[1]) /\ Operand(v[Len(v)])
    /\ \A i \in 1..Len(v) : Operand(v[i]) \/ Operator(v[i]) \/ Blank(v[i])
    /\ \A i \in 1..Len(v) : \A j \in (i + 2)..Len(v) :
          (Operand(v[i]) /\ Operand(v[j]) /\ \A m \in (i + 1)..(j - 1) : ~Operand(v[m]))
              => Cardinality({m \in (i + 1)..(j - 1) : Operator(v[m])}) = 1

\* The position in the text of the first character of span k, the spans lying
\* one after the other.
SpanStart(items, k) == 1 + TotalLen([i \in 1..(k - 1) |-> items[i].value])

SpanEnd(items, k) == TotalLen([i \in 1..k |-> items[i].value])

SpanValues(items) == [i \in 1..Len(items) |-> items[i].value]

\* C6: _split_mixed_text_equation returns either at least two blocks or the one
\* TEXT block that holds the whole input, and the latter whenever the input
\* has no Hangul syllable or no Latin letter.
C6_MixedSplitsOrKeepsWhole ==
    fn = "_split_mixed_text_equation" =>
        /\ \/ Len(result.items) >= 2
           \/ result.items = <<[type |-> "TEXT", value |-> text]>>
        /\ ((\A i \in 1..Len(text) : text[i] \notin Hangul)
            \/ (\A i \in 1..Len(text) : ~LatinLetter(text[i])))
              => result.items = <<[type |-> "TEXT", value |-> text]>>

\* A text with a Latin letter, an operator and a digit but no Hangul syllable
\* came back as one TEXT block.
C6_Witness ==
    /\ fn = "_split_mixed_text_equation"
    /\ \E i \in 1..Len(text) : LatinLetter(text[i])
    /\ \E i \in 1..Len(text) : Operator(text[i])
    /\ \E i \in 1..Len(text) : Blank(text[i])
    /\ \A i \in 1..Len(text) : text[i] \notin Hangul
    /\ result.items = <<[type |-> "TEXT", value |-> text]>>

\* C7: no EQUATION block of _split_mixed_text_equation holds a single digit; an
\* EQUATION value with a digit has at least two operand characters; every
\* EQUATION value has at most 20 characters and no Hangul syllable.
C7_NoLoneDigitEquation ==
    fn = "_split_mixed_text_equation" =>
        \A k \in 1..Len(result.items) :
            LET b == result.items[k] IN
            b.type = "EQUATION" =>
                /\ ~(Len(b.value) = 1 /\ b.value[1] \in Digit)
                /\ (\E i \in 1..Len(b.value) : b.value[i] \in Digit)
                      => Cardinality({i \in 1..Len(b.value) : Operand(b.value[i])}) >= 2
                /\ Len(b.value) <= 20
                /\ \A i \in 1..Len(b.value) : b.value[i] \notin Hangul

\* A text that starts with a lone digit before a Hangul syllable was split, and
\* the digit stayed in the TEXT block in front.
C7_Witness ==
    /\ fn = "_split_mixed_text_equation"
    /\ Len(text) >= 3
    /\ text[1] \in Digit /\ text[2] \in Hangul
    /\ Len(result.items) >= 2
    /\ result.items[1].type = "TEXT" /\ result.items[1].value[1] = text[1]
    /\ \E k \in 1..Len(result.items) : result.items[k].type = "EQUATION"

\* C8: the blocks of _split_mixed_text_equation lie one after the other in the
\* input; every EQUATION block is a run operand (operator operand)* that no
\* longer run of the input contains and that has no Latin letter next to it;
\* what lies between is TEXT, one non-empty block per gap; and
\* "(a > 0, b<U+B294> <U+C815><U+C218>)<U+C5D0><U+C11C>" gives
\* Text("("), Equation("a > 0"), Text(", "), Equation("b"), Text(the rest).
C8_EquationsAreMaximalRuns ==
    fn = "_split_mixed_text_equation" =>
        LET items == result.items IN
        /\ Flatten(SpanValues(items)) = text
        /\ \A k \in 1..Len(items) :
              /\ items[k].type \in {"TEXT", "EQUATION"}
              /\ items[k].value # <<>> \/ text = <<>>
              /\ (k > 1 /\ items[k].type = "TEXT") => items[k - 1].type = "EQUATION"
              /\ items[k].type = "EQUATION" =>
                    LET a == SpanStart(items, k)
                        b == SpanEnd(items, k)
                    IN  /\ IsRun(items[k].value)
                        /\ a = 1 \/ ~LatinLetter(text[a - 1])
                        /\ b = Len(text) \/ ~LatinLetter(text[b + 1])
                        /\ \A a2 \in 1..a : \A b2 \in b..Len(text) :
                              (a2 < a \/ b2 > b) => ~IsRun(SubSeq(text, a2, b2))
        /\ text = <<"(","a"," ",">"," ","0",","," ","b","U+B294"," ","U+C815",
                    "U+C218",")","U+C5D0","U+C11C">>
              => items = << [type |-> "TEXT", value |-> <<"(">>],
                            [type |-> "EQUATION", value |-> <<"a"," ",">"," ","0">>],
                            [type |-> "TEXT", value |-> <<",", " ">>],
                            [type |-> "EQUATION", value |-> <<"b">>],
                            [type |-> "TEXT", value |-> <<"U+B294"," ","U+C815",
                                                          "U+C218",")","U+C5D0","U+C11C">>] >>

\* The example of the docstring was split into its five blocks.
C8_Witness ==
    /\ fn = "_split_mixed_text_equation"
    /\ text = <<"(","a"," ",">"," ","0",","," ","b","U+B294"," ","U+C815",
                "U+C218",")","U+C5D0","U+C11C">>
    /\ Len(result.items) = 5
    /\ result.items[2] = [type |-> "EQUATION", value |-> <<"a"," ",">"," ","0">>]
    /\ result.items[4] = [type |-> "EQUATION", value |-> <<"b">>]

\* An emphasized span: a TEXT block that carries the underline mark.
IsEmphasized(b, v) == b.type = "TEXT" /\ b.value = v /\ "underline" \in DOMAIN b

IsEquation(b, v) == b.type = "EQUATION" /\ b.value = v

Positions(s, c) == {i \in 1..Len(s) : s[i] = c}

\* s is A __X__ B: i and j are where the two markers start, X is not empty and
\* s has no other underscore.
OneMarkerPair(s, i, j) ==
    /\ i + 3 <= j /\ j + 1 <= Len(s)
    /\ Positions(s, "_") = {i, i + 1, j, j + 1}

PlainIf(v) == IF v # <<>> THEN <<[type |-> "TEXT", value |-> v]>> ELSE <<>>

\* The positions of the delimiters of s that have no "$" next to them, in order.
RECURSIVE EligibleFrom(_, _)
EligibleFrom(s, i) ==
    IF i > Len(s) THEN <<>>
    ELSE IF s[i] = "$" /\ (i = 1 \/ s[i - 1] # "$") /\ (i = Len(s) \/ s[i + 1] # "$")
    THEN <<i>> \o EligibleFrom(s, i + 1)
    ELSE EligibleFrom(s, i + 1)

\* What stands between the first and the second of them, the third and the
\* fourth, and so on.
RECURSIVE PairContents(_, _)
PairContents(s, e) ==
    IF Len(e) < 2 THEN <<>>
    ELSE <<SubSeq(s, e[1] + 1, e[2] - 1)>> \o PairContents(s, Tail(Tail(e)))

\* The values of the Equation spans the $...$ pairs of s stand for.
ExpectedEquations(s) == TrimmedParts(PairContents(s, EligibleFrom(s, 1)))

IsEquationBlock(b) == b.type = "EQUATION"

EquationValues(items) == SpanValues(SelectSeq(items, IsEquationBlock))

\* C3: the passes compose: a text leaf with a marker pair __x__ and, after it
\* in plain text, a pair $y$ comes out of _parse_content_block as a list that
\* holds both EmphasizedText(x) and Equation(y).
C3_PassesCompose ==
    (fn = "_parse_content_block" /\ arg = "text") =>
        \A i \in Positions(text, "_"), j \in Positions(text, "_") :
        \A p \in Positions(text, "$"), q \in Positions(text, "$") :
            (/\ OneMarkerPair(text, i, j)
             /\ j + 2 <= p /\ p + 2 <= q
             /\ Positions(text, "$") = {p, q})
            => /\ result.ret = "list"
               /\ \E k \in 1..Len(result.items) :
                     IsEmphasized(result.items[k], SubSeq(text, i + 2, j - 1))
               /\ \E k \in 1..Len(result.items) :
                     IsEquation(result.items[k], Trimmed(SubSeq(text, p + 1, q - 1)))

\* C4: _split_underline_markup turns A __X__ B into Text(A), Emphasized(X),
\* Text(B), also when A and B are empty, and leaves a text whose only
\* underscores are one unpaired __ as one plain TEXT block.
C4_MarkerPairIsEmphasized ==
    fn = "_split_underline_markup" =>
        /\ \A i \in Positions(text, "_"), j \in Positions(text, "_") :
              OneMarkerPair(text, i, j) =>
                  /\ result.ret = "list"
                  /\ \E k \in 1..Len(result.items) :
                        /\ IsEmphasized(result.items[k], SubSeq(text, i + 2, j - 1))
                        /\ SubSeq(result.items, 1, k - 1) = PlainIf(SubSeq(text, 1, i - 1))
                        /\ SubSeq(result.items, k + 1, Len(result.items))
                              = PlainIf(SubSeq(text, j + 2, Len(text)))
        /\ (\E i \in 1..Len(text) : Positions(text, "_") = {i, i + 1})
              => result.ret = "list" /\ result.items = <<[type |-> "TEXT", value |-> text]>>

\* C5: the Equation spans of a text value are the trimmed non-empty contents of
\* its $...$ pairs, the delimiters being the "$" with no "$" next to them:
\* _split_inline_latex returns exactly these as EQUATION blocks, and
\* _parse_content_block returns each of them for a text block, also when one
\* pair is the whole value.
C5_DollarPairsAreEquations ==
    /\ fn = "_split_inline_latex" =>
          EquationValues(result.items) = ExpectedEquations(text)
    /\ (fn = "_parse_content_block" /\ arg = "text") =>
          \A m \in 1..Len(ExpectedEquations(text)) :
              /\ result.ret \in {"list", "block"}
              /\ \E k \in 1..Len(result.items) :
                    IsEquation(result.items[k], ExpectedEquations(text)[m])

\* C9: segmenting a text, joining the values of the spans and segmenting the
\* joined text again gives the spans of the first segmentation.
C9_SegmentationIdempotent ==
    (fn = "_parse_content_block" /\ arg = "text") =>
        /\ result.ret # "raise"
        /\ LET again == parse_content_block("text", Flatten(SpanValues(result.items)))
           IN  again.ret # "raise" /\ again.items = result.items

\* C10: no call on a non-empty value raises, and a text value with no marker,
\* no "$" and no Hangul syllable comes back as one TEXT block.
C10_NoPassRaises ==
    (fn # "init" /\ text # <<>>) =>
        /\ result.ret # "raise"
        /\ (/\ fn = "_parse_content_block" /\ arg = "text"
            /\ \A i \in 1..Len(text) : text[i] \notin ({"_", "$"} \cup Hangul))
              => result.items = <<[type |-> "TEXT", value |-> text]>>

----------------------------------------------------------------------------
(* _extract_latex_brace of src/core/hwpx_writer.py                         *)

\* s.lstrip()
LStrip(s) == Slice(s, SkipWhile(s, 1, Whitespace), Len(s))

\* Mutant: the first closing brace ends the argument, nested or not.
RECURSIVE ExtractLoop_FirstClose(_, _, _)
ExtractLoop_FirstClose(s, i, depth) ==
    IF i > Len(s) THEN <<Slice(s, 2, Len(s)), <<>>>>
    ELSE IF s[i] = "}"
    THEN <<Slice(s, 2, i - 1), Slice(s, i + 1, Len(s))>>
    ELSE ExtractLoop_FirstClose(s, i + 1, depth)

\* for i, ch in enumerate(s), and the return after the loop
RECURSIVE ExtractLoop(_, _, _)
ExtractLoop(s, i, depth) ==
    IF i > Len(s) THEN <<Slice(s, 2, Len(s)), <<>>>>
    ELSE IF s[i] = "{" THEN ExtractLoop(s, i + 1, depth + 1)
    ELSE IF s[i] = "}"
    THEN IF depth - 1 = 0
         THEN <<Slice(s, 2, i - 1), Slice(s, i + 1, Len(s))>>
         ELSE ExtractLoop(s, i + 1, depth - 1)
    ELSE ExtractLoop(s, i + 1, depth)

\* The pair (content, rest).
extract_latex_brace(s0) ==
    LET s == LStrip(s0)
    IN  IF s = <<>> \/ s[1] # "{" THEN << <<>>, s >> ELSE ExtractLoop(s, 1, 0)

RetPair(pair) == [ret |-> "pair", exc |-> "", items |-> pair]

----------------------------------------------------------------------------
(* The command tables of LaTeXToHWPConverter (src/core/latex_to_hwpeq.py),  *)
(* each in the order of its dict literal: << command, target >>.            *)

GREEK_MAP == <<
    << <<"\\", "a", "l", "p", "h", "a">>, <<"a", "l", "p", "h", "a">> >>,
    << <<"\\", "b", "e", "t", "a">>, <<"b", "e", "t", "a">> >>,
    << <<"\\", "g", "a", "m", "m", "a">>, <<"g", "a", "m", "m", "a">> >>,
    << <<"\\", "d", "e", "l", "t", "a">>, <<"d", "e", "l", "t", "a">> >>,
    << <<"\\", "e", "p", "s", "i", "l", "o", "n">>, <<"e", "p", "s", "i", "l", "o", "n">> >>,
    << <<"\\", "v", "a", "r", "e", "p", "s", "i", "l", "o", "n">>, <<"v", "a", "r", "e", "p", "s", "i", "l", "o", "n">> >>,
    << <<"\\", "z", "e", "t", "a">>, <<"z", "e", "t", "a">> >>,
    << <<"\\", "e", "t", "a">>, <<"e", "t", "a">> >>,
    << <<"\\", "t", "h", "e", "t", "a">>, <<"t", "h", "e", "t", "a">> >>,
    << <<"\\", "v", "a", "r", "t", "h", "e", "t", "a">>, <<"v", "a", "r", "t", "h", "e", "t", "a">> >>,
    << <<"\\", "i", "o", "t", "a">>, <<"i", "o", "t", "a">> >>,
    << <<"\\", "k", "a", "p", "p", "a">>, <<"k", "a", "p", "p", "a">> >>,
    << <<"\\", "l", "a", "m", "b", "d", "a">>, <<"l", "a", "m", "b", "d", "a">> >>,
    << <<"\\", "m", "u">>, <<"m", "u">> >>,
    << <<"\\", "n", "u">>, <<"n", "u">> >>,
    << <<"\\", "x", "i">>, <<"x", "i">> >>,
    << <<"\\", "p", "i">>, <<"p", "i">> >>,
    << <<"\\", "r", "h", "o">>, <<"r", "h", "o">> >>,
    << <<"\\", "s", "i", "g", "m", "a">>, <<"s", "i", "g", "m", "a">> >>,
    << <<"\\", "t", "a", "u">>, <<"t", "a", "u">> >>,
    << <<"\\", "u", "p", "s", "i", "l", "o", "n">>, <<"u", "p", "s", "i", "l", "o", "n">> >>,
    << <<"\\", "p", "h", "i">>, <<"p", "h", "i">> >>,
    << <<"\\", "v", "a", "r", "p", "h", "i">>, <<"v", "a", "r", "p", "h", "i">> >>,
    << <<"\\", "c", "h", "i">>, <<"c", "h", "i">> >>,
    << <<"\\", "p", "s", "i">>, <<"p", "s", "i">> >>,
    << <<"\\", "o", "m", "e", "g", "a">>, <<"o", "m", "e", "g", "a">> >>,
    << <<"\\", "G", "a", "m", "m", "a">>, <<"G", "a", "m", "m", "a">> >>,
    << <<"\\", "D", "e", "l", "t", "a">>, <<"D", "e", "l", "t", "a">> >>,
    << <<"\\", "T", "h", "e", "t", "a">>, <<"T", "h", "e", "t", "a">> >>,
    << <<"\\", "L", "a", "m", "b", "d", "a">>, <<"L", "a", "m", "b", "d", "a">> >>,
    << <<"\\", "X", "i">>, <<"X", "i">> >>,
    << <<"\\", "P", "i">>, <<"P", "i">> >>,
    << <<"\\", "S", "i", "g", "m", "a">>, <<"S", "i", "g", "m", "a">> >>,
    << <<"\\", "U", "p", "s", "i", "l", "o", "n">>, <<"U", "p", "s", "i", "l", "o", "n">> >>,
    << <<"\\", "P", "h", "i">>, <<"P", "h", "i">> >>,
    << <<"\\", "C", "h", "i">>, <<"C", "h", "i">> >>,
    << <<"\\", "P", "s", "i">>, <<"P", "s", "i">> >>,
    << <<"\\", "O", "m", "e", "g", "a">>, <<"O", "m", "e", "g", "a">> >> >>

SYMBOL_MAP == <<
    << <<"\\", "t", "i", "m", "e", "s">>, <<"T", "I", "M", "E", "S">> >>,
    << <<"\\", "c", "d", "o", "t">>, <<"C", "D", "O", "T">> >>,
    << <<"\\", "d", "i", "v">>, <<"D", "I", "V">> >>,
    << <<"\\", "p", "m">>, <<"P", "L", "U", "S", "M", "I", "N", "U", "S">> >>,
    << <<"\\", "m", "p">>, <<"M", "I", "N", "U", "S", "P", "L", "U", "S">> >>,
    << <<"\\", "l", "e", "q">>, <<"L", "E", "Q">> >>,
    << <<"\\", "l", "e">>, <<"L", "E", "Q">> >>,
    << <<"\\", "g", "e", "q">>, <<"G", "E", "Q">> >>,
    << <<"\\", "g", "e">>, <<"G", "E", "Q">> >>,
    << <<"\\", "n", "e", "q">>, <<"n", "e", "q">> >>,
    << <<"\\", "n", "e">>, <<"n", "e", "q">> >>,
    << <<"\\", "a", "p", "p", "r", "o", "x">>, <<"A", "P", "P", "R", "O", "X">> >>,
    << <<"\\", "e", "q", "u", "i", "v">>, <<"E", "Q", "U", "I", "V">> >>,
    << <<"\\", "s", "i", "m">>, <<"S", "I", "M">> >>,
    << <<"\\", "s", "i", "m", "e", "q">>, <<"S", "I", "M", "E", "Q">> >>,
    << <<"\\", "c", "o", "n", "g">>, <<"C", "O", "N", "G">> >>,
    << <<"\\", "p", "r", "o", "p", "t", "o">>, <<"P", "R", "O", "P", "T", "O">> >>,
    << <<"\\", "a", "s", "y", "m", "p">>, <<"A", "S", "Y", "M", "P">> >>,
    << <<"\\", "d", "o", "t", "e", "q">>, <<"D", "O", "T", "E", "Q">> >>,
    << <<"\\", "p", "r", "e", "c">>, <<"P", "R", "E", "C">> >>,
    << <<"\\", "s", "u", "c", "c">>, <<"S", "U", "C", "C">> >>,
    << <<"\\", "l", "l">>, <<"<", "<">> >>,
    << <<"\\", "g", "g">>, <<">", ">">> >>,
    << <<"\\", "i", "n", "f", "t", "y">>, <<"i", "n", "f">> >>,
    << <<"\\", "p", "a", "r", "t", "i", "a", "l">>, <<"p", "a", "r", "t", "i", "a", "l">> >>,
    << <<"\\", "n", "a", "b", "l", "a">>, <<"L", "A", "P", "L", "A", "C", "E">> >>,
    << <<"\\", "f", "o", "r", "a", "l", "l">>, <<"f", "o", "r", "a", "l", "l">> >>,
    << <<"\\", "e", "x", "i", "s", "t", "s">>, <<"E", "X", "I", "S", "T">> >>,
    << <<"\\", "i", "n">>, <<"i", "n">> >>,
    << <<"\\", "n", "o", "t", "i", "n">>, <<"n", "o", "t", "i", "n">> >>,
    << <<"\\", "n", "i">>, <<"O", "W", "N", "S">> >>,
    << <<"\\", "s", "u", "b", "s", "e", "t">>, <<"s", "u", "b", "s", "e", "t">> >>,
    << <<"\\", "s", "u", "p", "s", "e", "t">>, <<"s", "u", "p", "s", "e", "t">> >>,
    << <<"\\", "s", "u", "b", "s", "e", "t", "e", "q">>, <<"s", "u", "b", "s", "e", "t", "e", "q">> >>,
    << <<"\\", "s", "u", "p", "s", "e", "t", "e", "q">>, <<"s", "u", "p", "s", "e", "t", "e", "q">> >>,
    << <<"\\", "c", "u", "p">>, <<"S", "M", "A", "L", "L", "U", "N", "I", "O", "N">> >>,
    << <<"\\", "c", "a", "p">>, <<"S", "M", "A", "L", "L", "I", "N", "T", "E", "R">> >>,
    << <<"\\", "e", "m", "p", "t", "y", "s", "e", "t">>, <<"e", "m", "p", "t", "y", "s", "e", "t">> >>,
    << <<"\\", "v", "e", "e">>, <<"V", "E", "E">> >>,
    << <<"\\", "l", "o", "r">>, <<"V", "E", "E">> >>,
    << <<"\\", "w", "e", "d", "g", "e">>, <<"W", "E", "D", "G", "E">> >>,
    << <<"\\", "l", "a", "n", "d">>, <<"W", "E", "D", "G", "E">> >>,
    << <<"\\", "n", "e", "g">>, <<"L", "N", "O", "T">> >>,
    << <<"\\", "l", "n", "o", "t">>, <<"L", "N", "O", "T">> >>,
    << <<"\\", "o", "p", "l", "u", "s">>, <<"O", "P", "L", "U", "S">> >>,
    << <<"\\", "o", "t", "i", "m", "e", "s">>, <<"O", "T", "I", "M", "E", "S">> >>,
    << <<"\\", "t", "h", "e", "r", "e", "f", "o", "r", "e">>, <<"t", "h", "e", "r", "e", "f", "o", "r", "e">> >>,
    << <<"\\", "b", "e", "c", "a", "u", "s", "e">>, <<"b", "e", "c", "a", "u", "s", "e">> >>,
    << <<"\\", "a", "n", "g", "l", "e">>, <<"a", "n", "g", "l", "e">> >>,
    << <<"\\", "p", "e", "r", "p">>, <<"B", "O", "T">> >>,
    << <<"\\", "p", "a", "r", "a", "l", "l", "e", "l">>, <<"p", "a", "r", "a", "l", "l", "e", "l">> >>,
    << <<"\\", "t", "r", "i", "a", "n", "g", "l", "e">>, <<"T", "R", "I", "A", "N", "G", "L", "E">> >>,
    << <<"\\", "s", "q", "u", "a", "r", "e">>, <<"\"", "U+25A1", "\"">> >>,
    << <<"\\", "c", "i", "r", "c">>, <<"C", "I", "R", "C">> >>,
    << <<"\\", "b", "u", "l", "l", "e", "t">>, <<"B", "U", "L", "L", "E", "T">> >>,
    << <<"\\", "s", "t", "a", "r">>, <<"S", "T", "A", "R">> >>,
    << <<"\\", "d", "i", "a", "m", "o", "n", "d">>, <<"D", "I", "A", "M", "O", "N", "D">> >>,
    << <<"\\", "t", "o", "p">>, <<"T", "O", "P">> >>,
    << <<"\\", "v", "d", "a", "s", "h">>, <<"V", "D", "A", "S", "H">> >>,
    << <<"\\", "m", "o", "d", "e", "l", "s">>, <<"M", "O", "D", "E", "L", "S">> >>,
    << <<"\\", "r", "i", "g", "h", "t", "a", "r", "r", "o", "w">>, <<"-", ">">> >>,
    << <<"\\", "l", "e", "f", "t", "a", "r", "r", "o", "w">>, <<"<", "-">> >>,
    << <<"\\", "l", "e", "f", "t", "r", "i", "g", "h", "t", "a", "r", "r", "o", "w">>, <<"<", "-", ">">> >>,
    << <<"\\", "t", "o">>, <<"-", ">">> >>,
    << <<"\\", "g", "e", "t", "s">>, <<"<", "-">> >>,
    << <<"\\", "u", "p", "a", "r", "r", "o", "w">>, <<"u", "p", "a", "r", "r", "o", "w">> >>,
    << <<"\\", "d", "o", "w", "n", "a", "r", "r", "o", "w">>, <<"d", "o", "w", "n", "a", "r", "r", "o", "w">> >>,
    << <<"\\", "u", "p", "d", "o", "w", "n", "a", "r", "r", "o", "w">>, <<"u", "d", "a", "r", "r", "o", "w">> >>,
    << <<"\\", "n", "e", "a", "r", "r", "o", "w">>, <<"n", "e", "a", "r", "r", "o", "w">> >>,
    << <<"\\", "n", "w", "a", "r", "r", "o", "w">>, <<"n", "w", "a", "r", "r", "o", "w">> >>,
    << <<"\\", "s", "e", "a", "r", "r", "o", "w">>, <<"s", "e", "a", "r", "r", "o", "w">> >>,
    << <<"\\", "s", "w", "a", "r", "r", "o", "w">>, <<"s", "w", "a", "r", "r", "o", "w">> >>,
    << <<"\\", "h", "o", "o", "k", "l", "e", "f", "t", "a", "r", "r", "o", "w">>, <<"h", "o", "o", "k", "l", "e", "f", "t">> >>,
    << <<"\\", "h", "o", "o", "k", "r", "i", "g", "h", "t", "a", "r", "r", "o", "w">>, <<"h", "o", "o", "k", "r", "i", "g", "h", "t">> >>,
    << <<"\\", "m", "a", "p", "s", "t", "o">>, <<"m", "a", "p", "s", "t", "o">> >>,
    << <<"\\", "R", "i", "g", "h", "t", "a", "r", "r", "o", "w">>, <<"R", "A", "R", "R", "O", "W">> >>,
    << <<"\\", "L", "e", "f", "t", "a", "r", "r", "o", "w">>, <<"L", "A", "R", "R", "O", "W">> >>,
    << <<"\\", "L", "e", "f", "t", "r", "i", "g", "h", "t", "a", "r", "r", "o", "w">>, <<"L", "R", "A", "R", "R", "O", "W">> >>,
    << <<"\\", "U", "p", "a", "r", "r", "o", "w">>, <<"U", "P", "A", "R", "R", "O", "W">> >>,
    << <<"\\", "D", "o", "w", "n", "a", "r", "r", "o", "w">>, <<"D", "O", "W", "N", "A", "R", "R", "O", "W">> >>,
    << <<"\\", "U", "p", "d", "o", "w", "n", "a", "r", "r", "o", "w">>, <<"U", "D", "A", "R", "R", "O", "W">> >>,
    << <<"\\", "l", "d", "o", "t", "s">>, <<"L", "D", "O", "T", "S">> >>,
    << <<"\\", "c", "d", "o", "t", "s">>, <<"C", "D", "O", "T", "S">> >>,
    << <<"\\", "v", "d", "o", "t", "s">>, <<"V", "D", "O", "T", "S">> >>,
    << <<"\\", "d", "d", "o", "t", "s">>, <<"D", "D", "O", "T", "S">> >>,
    << <<"\\", "p", "r", "i", "m", "e">>, <<"p", "r", "i", "m", "e">> >>,
    << <<"\\", "a", "l", "e", "p", "h">>, <<"A", "L", "E", "P", "H">> >>,
    << <<"\\", "h", "b", "a", "r">>, <<"H", "B", "A", "R">> >>,
    << <<"\\", "i", "m", "a", "t", "h">>, <<"I", "M", "A", "T", "H">> >>,
    << <<"\\", "j", "m", "a", "t", "h">>, <<"J", "M", "A", "T", "H">> >>,
    << <<"\\", "e", "l", "l">>, <<"E", "L", "L">> >>,
    << <<"\\", "w", "p">>, <<"W", "P">> >>,
    << <<"\\", "I", "m">>, <<"I", "M", "A", "G">> >>,
    << <<"\\", "R", "e">>, <<"R", "E", "I", "M", "A", "G", "E">> >>,
    << <<"\\", "d", "a", "g", "g", "e", "r">>, <<"D", "A", "G", "G", "E", "R">> >>,
    << <<"\\", "d", "d", "a", "g", "g", "e", "r">>, <<"D", "D", "A", "G", "G", "E", "R">> >> >>

FUNC_MAP == <<
    << <<"\\", "s", "i", "n">>, <<"s", "i", "n">> >>,
    << <<"\\", "c", "o", "s">>, <<"c", "o", "s">> >>,
    << <<"\\", "t", "a", "n">>, <<"t", "a", "n">> >>,
    << <<"\\", "s", "e", "c">>, <<"s", "e", "c">> >>,
    << <<"\\", "c", "s", "c">>, <<"c", "s", "c">> >>,
    << <<"\\", "c", "o", "t">>, <<"c", "o", "t">> >>,
    << <<"\\", "c", "o", "s", "e", "c">>, <<"c", "o", "s", "e", "c">> >>,
    << <<"\\", "a", "r", "c", "s", "i", "n">>, <<"a", "r", "c", "s", "i", "n">> >>,
    << <<"\\", "a", "r", "c", "c", "o", "s">>, <<"a", "r", "c", "c", "o", "s">> >>,
    << <<"\\", "a", "r", "c", "t", "a", "n">>, <<"a", "r", "c", "t", "a", "n">> >>,
    << <<"\\", "s", "i", "n", "h">>, <<"s", "i", "n", "h">> >>,
    << <<"\\", "c", "o", "s", "h">>, <<"c", "o", "s", "h">> >>,
    << <<"\\", "t", "a", "n", "h">>, <<"t", "a", "n", "h">> >>,
    << <<"\\", "c", "o", "t", "h">>, <<"c", "o", "t", "h">> >>,
    << <<"\\", "l", "o", "g">>, <<"l", "o", "g">> >>,
    << <<"\\", "l", "n">>, <<"l", "n">> >>,
    << <<"\\", "l", "g">>, <<"l", "g">> >>,
    << <<"\\", "e", "x", "p">>, <<"e", "x", "p">> >>,
    << <<"\\", "E", "x", "p">>, <<"E", "x", "p">> >>,
    << <<"\\", "d", "e", "t">>, <<"d", "e", "t">> >>,
    << <<"\\", "m", "a", "x">>, <<"m", "a", "x">> >>,
    << <<"\\", "m", "i", "n">>, <<"m", "i", "n">> >>,
    << <<"\\", "s", "u", "p">>, <<"s", "u", "p">> >>,
    << <<"\\", "i", "n", "f">>, <<"i", "n", "f">> >>,
    << <<"\\", "l", "i", "m">>, <<"l", "i", "m">> >>,
    << <<"\\", "L", "i", "m">>, <<"L", "i", "m">> >>,
    << <<"\\", "g", "c", "d">>, <<"g", "c", "d">> >>,
    << <<"\\", "a", "r", "g">>, <<"a", "r", "g">> >>,
    << <<"\\", "d", "i", "m">>, <<"d", "i", "m">> >>,
    << <<"\\", "k", "e", "r">>, <<"k", "e", "r">> >>,
    << <<"\\", "h", "o", "m">>, <<"h", "o", "m">> >>,
    << <<"\\", "m", "o", "d">>, <<"m", "o", "d">> >>,
    << <<"\\", "l", "c", "m">>, <<"l", "c", "m">> >> >>

ACCENT_MAP == <<
    << <<"\\", "v", "e", "c">>, <<"V", "E", "C">> >>,
    << <<"\\", "b", "a", "r">>, <<"B", "A", "R">> >>,
    << <<"\\", "h", "a", "t">>, <<"H", "A", "T">> >>,
    << <<"\\", "t", "i", "l", "d", "e">>, <<"T", "I", "L", "D", "E">> >>,
    << <<"\\", "d", "o", "t">>, <<"D", "O", "T">> >>,
    << <<"\\", "d", "d", "o", "t">>, <<"D", "D", "O", "T">> >>,
    << <<"\\", "a", "c", "u", "t", "e">>, <<"a", "c", "u", "t", "e">> >>,
    << <<"\\", "g", "r", "a", "v", "e">>, <<"g", "r", "a", "v", "e">> >>,
    << <<"\\", "c", "h", "e", "c", "k">>, <<"c", "h", "e", "c", "k">> >>,
    << <<"\\", "b", "r", "e", "v", "e">>, <<"a", "r", "c", "h">> >>,
    << <<"\\", "o", "v", "e", "r", "l", "i", "n", "e">>, <<"o", "v", "e", "r", "l", "i", "n", "e">> >>,
    << <<"\\", "u", "n", "d", "e", "r", "l", "i", "n", "e">>, <<"u", "n", "d", "e", "r", "l", "i", "n", "e">> >>,
    << <<"\\", "o", "v", "e", "r", "r", "i", "g", "h", "t", "a", "r", "r", "o", "w">>, <<"V", "E", "C">> >>,
    << <<"\\", "w", "i", "d", "e", "h", "a", "t">>, <<"H", "A", "T">> >>,
    << <<"\\", "w", "i", "d", "e", "t", "i", "l", "d", "e">>, <<"T", "I", "L", "D", "E">> >> >>

\* The alternatives of _big_op_pattern in their order, each with its entry in
\* op_map of _big_op_repl.
BigOps == <<
    << <<"s", "u", "m">>, <<"S", "U", "M">> >>,
    << <<"p", "r", "o", "d">>, <<"P", "R", "O", "D">> >>,
    << <<"c", "o", "p", "r", "o", "d">>, <<"C", "O", "P", "R", "O", "D">> >>,
    << <<"i", "n", "t">>, <<"I", "N", "T">> >>,
    << <<"i", "i", "n", "t">>, <<"D", "I", "N", "T">> >>,
    << <<"i", "i", "i", "n", "t">>, <<"T", "I", "N", "T">> >>,
    << <<"o", "i", "n", "t">>, <<"O", "I", "N", "T">> >>,
    << <<"b", "i", "g", "c", "u", "p">>, <<"U", "N", "I", "O", "N">> >>,
    << <<"b", "i", "g", "c", "a", "p">>, <<"I", "N", "T", "E", "R">> >>
 >>

\* The alternatives of _env_pattern in their order, each with its entry in
\* env_map of _env_repl.
Envs == <<
    << <<"c", "a", "s", "e", "s">>, <<"C", "A", "S", "E", "S">> >>,
    << <<"p", "m", "a", "t", "r", "i", "x">>, <<"P", "M", "A", "T", "R", "I", "X">> >>,
    << <<"b", "m", "a", "t", "r", "i", "x">>, <<"B", "M", "A", "T", "R", "I", "X">> >>,
    << <<"v", "m", "a", "t", "r", "i", "x">>, <<"D", "M", "A", "T", "R", "I", "X">> >>,
    << <<"m", "a", "t", "r", "i", "x">>, <<"M", "A", "T", "R", "I", "X">> >>
 >>

\* delim_map of _leftright_repl for the characters the pattern can capture.
\* The keys "\{" and "\}" of the dict are two characters long; the groups of
\* the pattern capture one character, so no lookup ever finds them.
LeftDelims == {"(", "[", "{", "|", "."}

RightDelims == {")", "]", "}", "|", "."}

DelimOf(c) ==
    IF c = "{" THEN <<"l", "b", "r", "a", "c", "e">>
    ELSE IF c = "}" THEN <<"r", "b", "r", "a", "c", "e">>
    ELSE IF c = "." THEN <<>>
    ELSE <<c>>

----------------------------------------------------------------------------
(* str and re primitives.                                                   *)

\* s[i:].startswith(pat), i counted from 1
StartsAt(s, i, pat) ==
    /\ i >= 1
    /\ i + Len(pat) - 1 <= Len(s)
    /\ \A k \in 1..Len(pat) : s[i + k - 1] = pat[k]

\* The least member of a set of positions; 0 for the empty set.
First(S) == IF S = {} THEN 0 ELSE CHOOSE x \in S : \A y \in S : x <= y

\* s.find(pat, i): the first position q >= i of s where pat starts; 0 if none.
Find(s, i, pat) == First({q \in i..Len(s) : StartsAt(s, q, pat)})

\* The loop goes from one occurrence to the next.
RECURSIVE ReplaceLoop(_, _, _, _, _)
ReplaceLoop(s, pat, rep, i, out) ==
    LET q == Find(s, i, pat)
    IN  IF q = 0 THEN out \o Slice(s, i, Len(s))
        ELSE ReplaceLoop(s, pat, rep, q + Len(pat),
                         out \o Slice(s, i, q - 1) \o rep)

\* s.replace(pat, rep) for a non-empty pat: the occurrences from left to
\* right, none overlapping.
Replace(s, pat, rep) ==
    IF ~Contains1(s, pat[1]) THEN s ELSE ReplaceLoop(s, pat, rep, 1, <<>>)

\* s.strip("$")
StripDollar(s) ==
    LET a == SkipWhile(s, 1, {"$"})
        b == SkipBack(s, Len(s), {"$"})
    IN  Slice(s, a, b)

\* re.sub(r"  +", " ", s)
RECURSIVE CollapseLoop(_, _, _)
CollapseLoop(s, i, out) ==
    LET q == Find(s, i, <<" ", " ">>)
    IN  IF q = 0 THEN out \o Slice(s, i, Len(s))
        ELSE CollapseLoop(s, SkipWhile(s, q, {" "}),
                          out \o Slice(s, i, q - 1) \o <<" ">>)

CollapseSpaces(s) == CollapseLoop(s, 1, <<>>)

\* re.sub(r"\\[a-zA-Z]+", "", s)
RECURSIVE StripCommandsLoop(_, _, _)
StripCommandsLoop(s, i, out) ==
    LET q == First({j \in i..(Len(s) - 1) : s[j] = "\\" /\ s[j + 1] \in Latin})
    IN  IF q = 0 THEN out \o Slice(s, i, Len(s))
        ELSE StripCommandsLoop(s, SkipWhile(s, q + 1, Latin),
                               out \o Slice(s, i, q - 1))

\* Mutant: the last substitution of the cleanup is left out.
StripCommands_Skipped(s) == s

StripCommands(s) == StripCommandsLoop(s, 1, <<>>)

\* re.sub(r"\\begin\{name\*?\}", "", s) and the same for \end: tag is
\* "\begin{name" or "\end{name".
RECURSIVE RemoveTagLoop(_, _, _, _)
RemoveTagLoop(s, tag, i, out) ==
    LET q == Find(s, i, tag)
        e == q + Len(tag)
    IN  IF q = 0 THEN out \o Slice(s, i, Len(s))
        ELSE IF StartsAt(s, e, <<"*", "}">>)
        THEN RemoveTagLoop(s, tag, e + 2, out \o Slice(s, i, q - 1))
        ELSE IF StartsAt(s, e, <<"}">>)
        THEN RemoveTagLoop(s, tag, e + 1, out \o Slice(s, i, q - 1))
        ELSE RemoveTagLoop(s, tag, q + 1, out \o Slice(s, i, q))

RemoveTag(s, tag) ==
    IF ~Contains1(s, "\\") THEN s ELSE RemoveTagLoop(s, tag, 1, <<>>)

\* The nesting the pattern of _brace_group spells out: L3 lets a group hold
\* groups three levels deep.
NestLevels == 3

\* (?:[^{}]|\{L\})* from position j, L one level lower: the position after
\* the repetition.  A character is no brace or opens a group, so the greedy
\* repetition is the only way to match; b is the first brace from j on.
RECURSIVE BraceContent(_, _, _)
BraceContent(s, j, level) ==
    LET b == First({x \in j..Len(s) : s[x] \in {"{", "}"}})
    IN  IF b = 0 THEN Len(s) + 1
        ELSE IF s[b] = "{" /\ level > 0
        THEN LET e == BraceContent(s, b + 1, level - 1)
             IN  IF e <= Len(s) /\ s[e] = "}"
                 THEN BraceContent(s, e + 1, level)
                 ELSE b
        ELSE b

\* \{(?P<name>L3)\} at position i: the position of the closing brace, 0 when
\* there is no match.
BraceClose(s, i) ==
    IF i <= Len(s) /\ s[i] = "{"
    THEN LET e == BraceContent(s, i + 1, NestLevels)
         IN  IF e <= Len(s) /\ s[e] = "}" THEN e ELSE 0
    ELSE 0

\* A match: the position of its last character (0: no match) and its groups.
NoMatch == [end |-> 0, g |-> <<>>]

Match(e, groups) == [end |-> e, g |-> groups]

\* _brace_group_or_char at position i, read with _get_match: the group in
\* braces, or else one character that is no white space, brace or backslash.
GroupOrChar(s, i) ==
    LET e == BraceClose(s, i)
    IN  IF e > 0 THEN Match(e, <<Slice(s, i + 1, e - 1)>>)
        ELSE IF i <= Len(s) /\ s[i] \notin (Whitespace \cup {"{", "}", "\\"})
        THEN Match(i, <<<<s[i]>>>>)
        ELSE NoMatch

\* \\cmd\s*{group} at position i
CmdGroup(s, i, cmd) ==
    IF ~StartsAt(s, i, cmd) THEN NoMatch
    ELSE LET j == SkipWhile(s, i + Len(cmd), Whitespace)
             e == BraceClose(s, j)
         IN  IF e = 0 THEN NoMatch ELSE Match(e, <<Slice(s, j + 1, e - 1)>>)

\* \\cmd\s*{group}\s*{group} at position i
CmdTwoGroups(s, i, cmd) ==
    LET m == CmdGroup(s, i, cmd)
    IN  IF m.end = 0 THEN NoMatch
        ELSE LET j == SkipWhile(s, m.end + 1, Whitespace)
                 e == BraceClose(s, j)
             IN  IF e = 0 THEN NoMatch
                 ELSE Match(e, m.g \o <<Slice(s, j + 1, e - 1)>>)

\* The first entry from k on of a list of alternatives whose name starts at
\* position i of s, each name followed by tail; 0 if none.
RECURSIVE FirstAlt(_, _, _, _, _)
FirstAlt(alts, k, s, i, tail) ==
    IF k > Len(alts) THEN 0
    ELSE IF StartsAt(s, i, alts[k][1] \o tail) THEN k
    ELSE FirstAlt(alts, k + 1, s, i, tail)

----------------------------------------------------------------------------
(* The patterns of _build_patterns, each tried at position i of s.          *)

\* _env_pattern.  (.*?) is lazy and "." matches every character: the group
\* ends where the closing tag of the same name first starts, less the white
\* space in front of it.  The groups: the target of env_map, the content.
EnvMatch(s, i) ==
    IF ~StartsAt(s, i, <<"\\", "b", "e", "g", "i", "n", "{">>) THEN NoMatch
    ELSE LET k == FirstAlt(Envs, 1, s, i + 7, <<"}">>) IN
         IF k = 0 THEN NoMatch
         ELSE LET closing == <<"\\", "e", "n", "d", "{">> \o Envs[k][1] \o <<"}">>
                  bs == SkipWhile(s, i + 8 + Len(Envs[k][1]), Whitespace)
                  q == Find(s, bs, closing)
                  p == Max(bs, SkipBack(s, q - 1, Whitespace) + 1)
              IN  IF q = 0 THEN NoMatch
                  ELSE Match(q + Len(closing) - 1,
                             <<Envs[k][2], Slice(s, bs, p - 1)>>)

\* _sqrt_n_pattern: \\sqrt\s*\[([^\]]+)\]\s*{body}
SqrtNMatch(s, i) ==
    IF ~StartsAt(s, i, <<"\\", "s", "q", "r", "t">>) THEN NoMatch
    ELSE LET j == SkipWhile(s, i + 5, Whitespace)
             k == Find(s, j + 1, <<"]">>)
             l == SkipWhile(s, k + 1, Whitespace)
             e == BraceClose(s, l)
         IN  IF j > Len(s) \/ s[j] # "[" \/ k = 0 \/ k = j + 1 \/ e = 0
             THEN NoMatch
             ELSE Match(e, <<Slice(s, j + 1, k - 1), Slice(s, l + 1, e - 1)>>)

\* (?:\s*_\s*<lo>)? or (?:\s*\^\s*<hi>)? after position p
OptBound(s, p, mark) ==
    LET j == SkipWhile(s, p + 1, Whitespace)
    IN  IF j <= Len(s) /\ s[j] = mark
        THEN GroupOrChar(s, SkipWhile(s, j + 1, Whitespace))
        ELSE NoMatch

\* _big_op_pattern.  The groups: the target of op_map, lo, hi (empty when
\* the bound is missing).
BigOpMatch(s, i) ==
    IF i > Len(s) \/ s[i] # "\\" THEN NoMatch
    ELSE LET k == FirstAlt(BigOps, 1, s, i + 1, <<>>) IN
         IF k = 0 THEN NoMatch
         ELSE LET p == i + Len(BigOps[k][1])
                  lo == OptBound(s, p, "_")
                  p1 == IF lo.end > 0 THEN lo.end ELSE p
                  hi == OptBound(s, p1, "^")
                  p2 == IF hi.end > 0 THEN hi.end ELSE p1
              IN  Match(p2, <<BigOps[k][2],
                              IF lo.end > 0 THEN lo.g[1] ELSE <<>>,
                              IF hi.end > 0 THEN hi.g[1] ELSE <<>> >>)

\* The first \right at or after position i that a closing delimiter follows;
\* 0 if none.
RECURSIVE FindRight(_, _)
FindRight(s, i) ==
    LET q == Find(s, i, <<"\\", "r", "i", "g", "h", "t">>)
        c == SkipWhile(s, q + 6, Whitespace)
    IN  IF q = 0 THEN 0
        ELSE IF c <= Len(s) /\ s[c] \in RightDelims THEN q
        ELSE FindRight(s, q + 1)

\* _leftright_pattern.  (.*?) is lazy and "." matches every character
\* (re.DOTALL): the body ends at the first \right that a closing delimiter
\* follows.  The groups: left, body, right.
LeftRightMatch(s, i) ==
    IF ~StartsAt(s, i, <<"\\", "l", "e", "f", "t">>) THEN NoMatch
    ELSE LET j == SkipWhile(s, i + 5, Whitespace)
             bs == SkipWhile(s, j + 1, Whitespace)
             q == FindRight(s, bs)
             p == Max(bs, SkipBack(s, q - 1, Whitespace) + 1)
             c == SkipWhile(s, q + 6, Whitespace)
         IN  IF j > Len(s) \/ s[j] \notin LeftDelims \/ q = 0 THEN NoMatch
             ELSE Match(c, << <<s[j]>>, Slice(s, bs, p - 1), <<s[c]>> >>)

\* _accent_pattern: the alternatives in the order of ACCENT_MAP.  The
\* groups: the target of ACCENT_MAP, the body.
RECURSIVE AccentMatchFrom(_, _, _)
AccentMatchFrom(s, i, k) ==
    IF k > Len(ACCENT_MAP) THEN NoMatch
    ELSE LET m == CmdGroup(s, i, ACCENT_MAP[k][1])
         IN  IF m.end > 0 THEN Match(m.end, <<ACCENT_MAP[k][2], m.g[1]>>)
             ELSE AccentMatchFrom(s, i, k + 1)

AccentMatch(s, i) ==
    IF i > Len(s) \/ s[i] # "\\" THEN NoMatch ELSE AccentMatchFrom(s, i, 1)

\* _superscript (mark "^") and _subscript (mark "_")
ScriptMatch(s, i, mark) ==
    IF i > Len(s) \/ s[i] # mark THEN NoMatch
    ELSE GroupOrChar(s, SkipWhile(s, i + 1, Whitespace))

\* \{([^{}]+)\}
SimpleGroupMatch(s, i) ==
    IF i > Len(s) \/ s[i] # "{" THEN NoMatch
    ELSE LET e == BraceContent(s, i + 1, 0)
         IN  IF e <= Len(s) /\ s[e] = "}" /\ e > i + 1
             THEN Match(e, <<Slice(s, i + 1, e - 1)>>)
             ELSE NoMatch

\* The stages of _convert_expr that call Pattern.sub, in their order.
SubStages ==
    <<"env", "text", "mathrm", "mathbf", "binom", "frac", "sqrt_n", "sqrt",
      "big_op", "leftright", "accent", "superscript", "subscript", "brace">>

MatchAt(stage, s, i) ==
    CASE stage = "env" -> EnvMatch(s, i)
      [] stage = "text" -> CmdGroup(s, i, <<"\\", "t", "e", "x", "t">>)
      [] stage = "mathrm" -> CmdGroup(s, i, <<"\\", "m", "a", "t", "h", "r", "m">>)
      [] stage = "mathbf" -> CmdGroup(s, i, <<"\\", "m", "a", "t", "h", "b", "f">>)
      [] stage = "binom" -> CmdTwoGroups(s, i, <<"\\", "b", "i", "n", "o", "m">>)
      [] stage = "frac" -> CmdTwoGroups(s, i, <<"\\", "f", "r", "a", "c">>)
      [] stage = "sqrt_n" -> SqrtNMatch(s, i)
      [] stage = "sqrt" -> CmdGroup(s, i, <<"\\", "s", "q", "r", "t">>)
      [] stage = "big_op" -> BigOpMatch(s, i)
      [] stage = "leftright" -> LeftRightMatch(s, i)
      [] stage = "accent" -> AccentMatch(s, i)
      [] stage = "superscript" -> ScriptMatch(s, i, "^")
      [] stage = "subscript" -> ScriptMatch(s, i, "_")
      [] stage = "brace" -> SimpleGroupMatch(s, i)

\* The character every match of the stage starts with.
FirstChar(stage) ==
    CASE stage = "superscript" -> "^"
      [] stage = "subscript" -> "_"
      [] stage = "brace" -> "{"
      [] OTHER -> "\\"

----------------------------------------------------------------------------
(* The replacement functions: what stands for a match, as the pieces it is  *)
(* put together from.  A piece is literal text or an argument that          *)
(* _convert_expr is called on.                                              *)

Lit(v) == [k |-> "lit", v |-> v]

Arg(v) == [k |-> "arg", v |-> v]

\* Mutant: the body is put into two groups before it is converted.
LeftRightPieces_BodyInGroups(left, body, right) ==
    <<Lit(<<"L", "E", "F", "T", " ">>), Arg(<<"{", "{">> \o body \o <<"}", "}">>), Lit(<<" ", "R", "I", "G", "H", "T">>)>>

\* _leftright_repl: inner is converted first, then the f-string is chosen.
LeftRightPieces(left, body, right) ==
    LET l_str == DelimOf(left[1])
        r_str == DelimOf(right[1])
    IN  IF l_str # <<>> /\ r_str # <<>>
        THEN <<Lit(<<"L", "E", "F", "T", " ">> \o l_str \o <<" ">>), Arg(body),
               Lit(<<" ", "R", "I", "G", "H", "T", " ">> \o r_str)>>
        ELSE IF l_str # <<>>
        THEN <<Lit(<<"L", "E", "F", "T", " ">> \o l_str \o <<" ">>), Arg(body)>>
        ELSE IF r_str # <<>>
        THEN <<Arg(body), Lit(<<" ", "R", "I", "G", "H", "T", " ">> \o r_str)>>
        ELSE <<Arg(body)>>

\* _big_op_repl
BigOpPieces(hwp_op, lo, hi) ==
    <<Lit(hwp_op)>>
    \o (IF lo # <<>> THEN <<Lit(<<" ", "_", "{">>), Arg(lo), Lit(<<"}">>)>> ELSE <<>>)
    \o (IF hi # <<>> THEN <<Lit(<<" ", "^", "{">>), Arg(hi), Lit(<<"}">>)>> ELSE <<>>)

Pieces(stage, m) ==
    CASE stage = "env" ->
           <<Lit(m.g[1] \o <<" ", "{">>), Arg(Replace(m.g[2], <<"\\", "\\">>, <<" ", "#", " ">>)), Lit(<<"}">>)>>
      [] stage = "text" -> <<Lit(<<"\"">> \o m.g[1] \o <<"\"">>)>>
      [] stage = "mathrm" -> <<Lit(<<"r", "m", " ">> \o m.g[1])>>
      [] stage = "mathbf" -> <<Lit(<<"b", "o", "l", "d", " ">> \o m.g[1])>>
      [] stage = "binom" ->
           <<Lit(<<"L", "E", "F", "T", " ", "(", " ", "{">>), Arg(m.g[1]), Lit(<<"}", " ", "a", "t", "o", "p", " ", "{">>), Arg(m.g[2]),
             Lit(<<"}", " ", "R", "I", "G", "H", "T", " ", ")">>)>>
      [] stage = "frac" ->
           <<Lit(<<"{">>), Arg(m.g[1]), Lit(<<"}", " ", "o", "v", "e", "r", " ", "{">>), Arg(m.g[2]), Lit(<<"}">>)>>
      [] stage = "sqrt_n" ->
           <<Lit(<<"r", "o", "o", "t", " ", "{">>), Arg(m.g[1]), Lit(<<"}", " ", "o", "f", " ", "{">>), Arg(m.g[2]), Lit(<<"}">>)>>
      [] stage = "sqrt" -> <<Lit(<<"s", "q", "r", "t", " ", "{">>), Arg(m.g[1]), Lit(<<"}">>)>>
      [] stage = "big_op" -> BigOpPieces(m.g[1], m.g[2], m.g[3])
      [] stage = "leftright" -> LeftRightPieces(m.g[1], m.g[2], m.g[3])
      [] stage = "accent" -> <<Lit(m.g[1] \o <<" ", "{">>), Arg(m.g[2]), Lit(<<"}">>)>>
      [] stage = "superscript" -> <<Lit(<<" ", "^", "{">>), Arg(m.g[1]), Lit(<<"}">>)>>
      [] stage = "subscript" -> <<Lit(<<" ", "_", "{">>), Arg(m.g[1]), Lit(<<"}">>)>>
      [] stage = "brace" -> <<Lit(<<"{">>), Arg(m.g[1]), Lit(<<"}">>)>>

----------------------------------------------------------------------------
(* _convert_expr and convert.                                               *)

\* The interpreter's limit on nested calls, counted in calls of
\* _convert_expr: a call past it raises RecursionError.
RecursionLimit == 10

\* What a call of _convert_expr has done: s, the string it works on; depth,
\* the deepest call level reached; calls, the recursive calls made, each as
\* << argument of the caller, argument of the call >>.
Trace(s, d) == [s |-> s, depth |-> d, calls |-> <<>>]

RECURSIVE convert_expr(_, _)

\* acc after a call of _convert_expr on the argument v that has done r.
AfterCall(acc, ctx, v, r) ==
    [s |-> acc.s \o r.s,
     depth |-> Max(acc.depth, r.depth),
     calls |-> acc.calls \o <<<<ctx.caller, v>>>> \o r.calls]

\* Put the pieces of one replacement after acc.s, calling _convert_expr on
\* the arguments from left to right.  A call past the limit ends the work.
RECURSIVE Render(_, _, _, _)
Render(pieces, n, ctx, acc) ==
    IF n > Len(pieces) \/ acc.depth > RecursionLimit THEN acc
    ELSE IF pieces[n].k = "lit"
    THEN Render(pieces, n + 1, ctx, [acc EXCEPT !.s = @ \o pieces[n].v])
    ELSE Render(pieces, n + 1, ctx,
                AfterCall(acc, ctx, pieces[n].v,
                          convert_expr(pieces[n].v, ctx.d + 1)))

\* Pattern.sub(repl, s): the matches from left to right, none overlapping;
\* the search goes on after the end of a match.
RECURSIVE SubLoop(_, _, _, _, _)

\* ms[x] is the match at position x; the first position j with a match is
\* replaced, j = 0 when there is none.
SubMatch(stage, s, ctx, i, acc, ms, j) ==
    IF j = 0 THEN [acc EXCEPT !.s = @ \o Slice(s, i, Len(s))]
    ELSE SubLoop(stage, s, ctx, ms[j].end + 1,
                 Render(Pieces(stage, ms[j]), 1, ctx,
                        [acc EXCEPT !.s = @ \o Slice(s, i, j - 1)]))

SubFrom(stage, s, ctx, i, acc, ms) ==
    SubMatch(stage, s, ctx, i, acc, ms,
             First({x \in DOMAIN ms : ms[x].end > 0}))

SubLoop(stage, s, ctx, i, acc) ==
    IF acc.depth > RecursionLimit THEN acc
    ELSE SubFrom(stage, s, ctx, i, acc,
                 [x \in i..Len(s) |-> MatchAt(stage, s, x)])

\* Mutant: the shortest command first.
RECURSIVE SortedByLength_ShortestFirst(_, _)
SortedByLength_ShortestFirst(table, n) ==
    IF n = 0 THEN <<>>
    ELSE SortedByLength_ShortestFirst(table, n - 1)
         \o SelectSeq(table, LAMBDA e : Len(e[1]) = n)

\* sorted(MAP.items(), key=lambda x: -len(x[0])) for commands of at most n
\* characters: the longest first, commands of one length in the order of the
\* dict (sorted is stable).
RECURSIVE SortedByLength(_, _)
SortedByLength(table, n) ==
    IF n = 0 THEN <<>>
    ELSE SelectSeq(table, LAMBDA e : Len(e[1]) = n)
         \o SortedByLength(table, n - 1)

\* len of the longest key of the three tables
MaxCommandLen == 15

GreekItems == SortedByLength(GREEK_MAP, MaxCommandLen)

SymbolItems == SortedByLength(SYMBOL_MAP, MaxCommandLen)

FuncItems == SortedByLength(FUNC_MAP, MaxCommandLen)

\* for latex_cmd, hwp_name in items[lo..hi]: s = s.replace(latex_cmd, hwp_name)
\* The loop is cut in halves, the first half before the second; the empty
\* string stays empty.
RECURSIVE ReplaceEach(_, _, _, _)
ReplaceEach(s, items, lo, hi) ==
    IF s = <<>> \/ lo > hi THEN s
    ELSE IF lo = hi THEN Replace(s, items[lo][1], items[lo][2])
    ELSE LET mid == (lo + hi) \div 2
         IN  ReplaceEach(ReplaceEach(s, items, lo, mid), items, mid + 1, hi)

\* Stages 8 to 10.  Every command starts with a backslash.
Substitute(s) ==
    IF ~Contains1(s, "\\") THEN s
    ELSE LET s8 == ReplaceEach(s, GreekItems, 1, Len(GreekItems))
             s9 == ReplaceEach(s8, SymbolItems, 1, Len(SymbolItems))
         IN  ReplaceEach(s9, FuncItems, 1, Len(FuncItems))

\* Stage 13
Cleanup(s) ==
    IF ~Contains1(s, "\\") THEN s
    ELSE LET s1 == Replace(s, <<"\\", ",">>, <<"U+0060">>)
             s2 == Replace(s1, <<"\\", ";">>, <<"~">>)
             s3 == Replace(s2, <<"\\", "!">>, <<>>)
             s4 == Replace(s3, <<"\\", "q", "q", "u", "a", "d">>, <<"~", "~", "~", "~">>)
             s5 == Replace(s4, <<"\\", "q", "u", "a", "d">>, <<"~", "~">>)
             s6 == Replace(s5, <<"\\", "\\">>, <<>>)
         IN  StripCommands(s6)

\* One stage that calls Pattern.sub, on the string of t.  A string without
\* the character the matches of the stage start with has no match.
Sub(stage, t, ctx) ==
    IF ~Contains1(t.s, FirstChar(stage)) THEN t
    ELSE SubLoop(stage, t.s, ctx, 1, [t EXCEPT !.s = <<>>])

\* The stages of _convert_expr in their order: the table substitution
\* stands between the accents and the superscripts, the cleanup is last.
Stages ==
    SubSeq(SubStages, 1, 11) \o <<"tables">> \o SubSeq(SubStages, 12, 14)
    \o <<"cleanup">>

Stage(stage, t, ctx) ==
    IF stage = "tables" THEN [t EXCEPT !.s = Substitute(@)]
    ELSE IF stage = "cleanup" THEN [t EXCEPT !.s = Cleanup(@)]
    ELSE Sub(stage, t, ctx)

\* The stages lo to hi, one after the other: the first half, then the
\* second half on what the first half gives.  A call past the limit ends
\* the work.
RECURSIVE SubAll(_, _, _, _)
SubAll(lo, hi, t, ctx) ==
    IF t.depth > RecursionLimit THEN t
    ELSE IF lo = hi THEN Stage(Stages[lo], t, ctx)
    ELSE SubAll((lo + hi) \div 2 + 1, hi,
                SubAll(lo, (lo + hi) \div 2, t, ctx), ctx)

convert_expr(s, d) ==
    IF d > RecursionLimit \/ s = <<>> THEN Trace(<<>>, d)
    ELSE SubAll(1, Len(Stages), Trace(s, d), [d |-> d, caller |-> s])

\* The tags convert removes: \begin{name}, \begin{name*} and the same for
\* \end, name by name.
DisplayTags ==
    <<<<"\\", "b", "e", "g", "i", "n", "{", "e", "q", "u", "a", "t", "i", "o", "n">>, <<"\\", "e", "n", "d", "{", "e", "q", "u", "a", "t", "i", "o", "n">>, <<"\\", "b", "e", "g", "i", "n", "{", "a", "l", "i", "g", "n">>, <<"\\", "e", "n", "d", "{", "a", "l", "i", "g", "n">>,
      <<"\\", "b", "e", "g", "i", "n", "{", "g", "a", "t", "h", "e", "r">>, <<"\\", "e", "n", "d", "{", "g", "a", "t", "h", "e", "r">>, <<"\\", "b", "e", "g", "i", "n", "{", "d", "i", "s", "p", "l", "a", "y", "m", "a", "t", "h">>,
      <<"\\", "e", "n", "d", "{", "d", "i", "s", "p", "l", "a", "y", "m", "a", "t", "h">>>>

RECURSIVE RemoveTags(_, _)
RemoveTags(s, k) ==
    IF k > Len(DisplayTags) THEN s
    ELSE RemoveTags(RemoveTag(s, DisplayTags[k]), k + 1)

\* convert, before _convert_expr: the string it is called on
ConvertPre(latex) ==
    LET s1 == Strip(StripDollar(Strip(latex)))
        s2 == Replace(Replace(Replace(Replace(s1, <<"\\", "[">>, <<>>), <<"\\", "]">>, <<>>),
                              <<"\\", "(">>, <<>>),
                      <<"\\", ")">>, <<>>)
    IN  Strip(RemoveTags(s2, 1))

\* convert, after _convert_expr: re.sub(r"  +", " ", result).strip()
ConvertPost(t) == [t EXCEPT !.s = Strip(CollapseSpaces(@))]

convert(latex) == ConvertPost(convert_expr(ConvertPre(latex), 1))

latex_to_hwpeq(latex) == convert(latex)

\* The string convert returns, or the RecursionError of a call past the limit.
RetStr(t) ==
    IF t.depth > RecursionLimit THEN Raise("RecursionError")
    ELSE [ret |-> "str", exc |-> "", items |-> t.s, depth |-> t.depth,
          calls |-> t.calls]

----------------------------------------------------------------------------
(* The inputs of the LaTeX functions.                                       *)

MaxLenBrace == 5
MaxLenCommand == 4
MaxNest == 5

BraceAlphabet == {"{", "}", " ", "a"}

CommandAlphabet == {"\\", "a", "^", "{", "}"}

\* The commands of the three tables, each alone.
TableCommands ==
    {GREEK_MAP[k][1] : k \in 1..Len(GREEK_MAP)}
    \cup {SYMBOL_MAP[k][1] : k \in 1..Len(SYMBOL_MAP)}
    \cup {FUNC_MAP[k][1] : k \in 1..Len(FUNC_MAP)}

\* Expressions to build larger ones from; the last is nested past the three
\* levels of _brace_group.
Operands ==
    {<<"1">>, <<"2">>, <<"x", "^", "2">>, <<"a", "_", "1">>, <<"\\", "a", "l", "p", "h", "a">>, <<"\\", "s", "q", "r", "t", "{", "x", "}">>, <<"\\", "f", "r", "a", "c", "{", "1", "}", "{", "2", "}">>, <<"{", "{", "{", "x", "}", "}", "}">>,
     <<"{", "{", "{", "{", "x", "}", "}", "}", "}">>}

FracOf(a, b) == <<"\\", "f", "r", "a", "c", "{">> \o a \o <<"}", "{">> \o b \o <<"}">>

FracTexts == {FracOf(a, b) : a \in Operands, b \in Operands}

Bounds == {<<"i", "=", "0">>, <<"n">>, <<"\\", "i", "n", "f", "t", "y">>, <<"{", "{", "{", "{", "a", "}", "}", "}", "}">>}

BigOpNames == {BigOps[k][1] : k \in 1..Len(BigOps)}

\* \op_{lo}^{hi}, \op^{hi}_{lo}, \op_{lo}, \op^{hi}, \op
BigOpTexts ==
    {<<"\\">> \o op \o <<"_", "{">> \o lo \o <<"}", "^", "{">> \o hi \o <<"}">> :
        op \in BigOpNames, lo \in Bounds, hi \in Bounds}
    \cup {<<"\\">> \o op \o <<"^", "{">> \o hi \o <<"}", "_", "{">> \o lo \o <<"}">> :
        op \in BigOpNames, lo \in Bounds, hi \in Bounds}
    \cup {<<"\\">> \o op \o <<"_", "{">> \o lo \o <<"}">> : op \in BigOpNames, lo \in Bounds}
    \cup {<<"\\">> \o op \o <<"^", "{">> \o hi \o <<"}">> : op \in BigOpNames, hi \in Bounds}
    \cup {<<"\\">> \o op : op \in BigOpNames}

LeftDelimiters == {<<"(">>, <<"[">>, <<"|">>, <<".">>, <<"\\", "{">>, <<"{">>}

RightDelimiters == {<<")">>, <<"]">>, <<"|">>, <<".">>, <<"\\", "}">>, <<"}">>}

Bodies == {<<"x">>, <<"\\", "f", "r", "a", "c", "{", "1", "}", "{", "2", "}">>, <<"a", " ", "\\", "l", "e", "f", "t", "(", " ", "y", " ", "\\", "r", "i", "g", "h", "t", ")", " ", "b">>, <<"\\", "l", "e", "f", "t", "\\", "{", " ", "y", " ", "\\", "r", "i", "g", "h", "t", "\\", "}">>}

LeftRightOf(d1, body, d2) ==
    <<"\\", "l", "e", "f", "t">> \o d1 \o <<" ">> \o body \o <<" ", "\\", "r", "i", "g", "h", "t">> \o d2

LeftRightTexts ==
    {LeftRightOf(d1, body, d2) :
        d1 \in LeftDelimiters, body \in Bodies, d2 \in RightDelimiters}

TextCommands == {<<"\\", "t", "e", "x", "t">>, <<"\\", "m", "a", "t", "h", "r", "m">>, <<"\\", "m", "a", "t", "h", "b", "f">>}

Contents == {<<"a">>, <<"a", " ", "b">>, <<"x", "_", "1">>, <<"x", "^", "2">>, <<"\\", "a", "l", "p", "h", "a">>, <<"a", "\\", ",", "b">>, <<"{", "a", "}">>, <<"\\", "f", "r", "a", "c", "{", "1", "}", "{", "2", "}">>}

TextOf(cmd, c) == cmd \o <<"{">> \o c \o <<"}">>

TextTexts == {TextOf(cmd, c) : cmd \in TextCommands, c \in Contents}

\* cmd nested d levels deep in its own first argument around the expression
\* "1"; cmd is "frac", "sqrt" or "vec".
RECURSIVE NestOf(_, _)
NestOf(cmd, d) ==
    IF d = 0 THEN <<"1">>
    ELSE IF cmd = "frac" THEN FracOf(NestOf(cmd, d - 1), <<"2">>)
    ELSE IF cmd = "sqrt" THEN <<"\\", "s", "q", "r", "t", "{">> \o NestOf(cmd, d - 1) \o <<"}">>
    ELSE <<"\\", "v", "e", "c", "{">> \o NestOf(cmd, d - 1) \o <<"}">>

NestCommands == {"frac", "sqrt", "vec"}

NestTexts == {NestOf(cmd, d) : cmd \in NestCommands, d \in 0..MaxNest}

SampleLatex ==
    {<<"\\", "s", "u", "m", "_", "{", "i", "=", "0", "}", "^", "{", "n", "}", " ", "i">>, <<"$", "x", "^", "2", "$">>, <<"\\", "[", " ", "x", " ", "\\", "]">>, <<"\\", "(", " ", "x", " ", "\\", ")">>, <<"\\", "i", "n", "t", "\\", "i", "n", "t">>,
     <<"\\", "b", "e", "g", "i", "n", "{", "e", "q", "u", "a", "t", "i", "o", "n", "}", "x", "\\", "e", "n", "d", "{", "e", "q", "u", "a", "t", "i", "o", "n", "}">>, <<"\\", "b", "e", "g", "i", "n", "{", "a", "l", "i", "g", "n", "*", "}", "x", "\\", "e", "n", "d", "{", "a", "l", "i", "g", "n", "*", "}">>,
     <<"\\", "b", "e", "g", "i", "n", "{", "c", "a", "s", "e", "s", "}", " ", "a", " ", "\\", "\\", " ", "b", " ", "\\", "e", "n", "d", "{", "c", "a", "s", "e", "s", "}">>, <<"\\", "b", "e", "g", "i", "n", "{", "p", "m", "a", "t", "r", "i", "x", "}", " ", "a", " ", "\\", "e", "n", "d", "{", "p", "m", "a", "t", "r", "i", "x", "}">>,
     <<"\\", "b", "i", "n", "o", "m", "{", "n", "}", "{", "k", "}">>, <<"\\", "s", "q", "r", "t", "[", "3", "]", "{", "x", "}">>, <<"\\", "s", "q", "r", "t", "[", "]", "{", "x", "}">>, <<"a", "\\", ",", "b", "\\", ";", "c", "\\", "!", "d", "\\", "q", "u", "a", "d", " ", "e", "\\", "q", "q", "u", "a", "d", " ", "f">>,
     <<"\\", "s", "u", "m", "\\", "l", "i", "m", "i", "t", "s", "_", "{", "i", "}">>, <<"\\", "s", "u", "m", "_", "\\", "a", "l", "p", "h", "a">>, <<"x", "^", "\\", "a", "l", "p", "h", "a">>, <<"\\", "l", "e", "f", "t", "a", "r", "r", "o", "w">>, <<"\\", "\\", "\\", "a">>,
     <<" ", " ", "x", " ", " ", " ", "y", " ", " ">>, <<"\\", "b", "a", "r", "{", "x", "}", "^", "2">>, <<"\\", "l", "e", "f", "t", "(", " ", "\\", "l", "e", "f", "t", "(", " ", "x", " ", "\\", "r", "i", "g", "h", "t", ")", " ", "\\", "r", "i", "g", "h", "t", ")">>}

LatexTexts ==
    Strings(BraceAlphabet, MaxLenBrace)
    \cup Strings(CommandAlphabet, MaxLenCommand)
    \cup TableCommands
    \cup FracTexts
    \cup BigOpTexts
    \cup LeftRightTexts
    \cup TextTexts
    \cup NestTexts
    \cup SampleLatex

----------------------------------------------------------------------------
(* The state machine of the LaTeX functions: one call of one function on   *)
(* one input.                                                               *)

InitLatex ==
    /\ text \in LatexTexts
    /\ arg = ""
    /\ fn = "init"
    /\ result = RetNone
    /\ NoThreads

Call_extract_latex_brace ==
    /\ fn = "init"
    /\ fn' = "_extract_latex_brace"
    /\ result' = RetPair(extract_latex_brace(text))
    /\ UNCHANGED <<text, arg, threadVars>>

Call_latex_to_hwpeq ==
    /\ fn = "init"
    /\ fn' = "latex_to_hwpeq"
    /\ result' = RetStr(latex_to_hwpeq(text))
    /\ UNCHANGED <<text, arg, threadVars>>

NextLatex ==
    \/ Call_extract_latex_brace
    \/ Call_latex_to_hwpeq

SpecLatex == InitLatex /\ [][NextLatex]_vars

----------------------------------------------------------------------------
(* Properties of the LaTeX functions.                                       *)

\* s without its leading white space.
DropLeadingBlanks(s) ==
    LET keep == {i \in 1..Len(s) : ~Blank(s[i])} IN
    IF keep = {} THEN <<>> ELSE SubSeq(s, SetMin(keep), Len(s))

\* How often c stands in the first j characters of s.
CountUpTo(s, j, c) == Cardinality({i \in 1..j : s[i] = c})

\* The closing braces of s that leave as many "{" as "}" before and at them.
\* For an s that starts with "{" the first of them matches that brace.
Closers(s) ==
    {j \in 1..Len(s) :
        s[j] = "}" /\ CountUpTo(s, j, "{") = CountUpTo(s, j, "}")}

\* C11: _extract_latex_brace never raises.  For a string that, after its
\* leading white space, starts with "{": when that brace is not closed, the
\* content is all that follows the brace and the rest is empty; when it is
\* closed, the content is the text strictly between the brace and its
\* matching "}" and the rest is all that follows the matching "}".
C11_ExtractsFirstBraceArgument ==
    fn = "_extract_latex_brace" =>
        /\ result.ret = "pair"
        /\ LET t == DropLeadingBlanks(text) IN
           (t # <<>> /\ t[1] = "{") =>
               IF Closers(t) = {}
               THEN result.items = <<SubSeq(t, 2, Len(t)), <<>>>>
               ELSE LET j == SetMin(Closers(t))
                    IN  result.items =
                            <<SubSeq(t, 2, j - 1), SubSeq(t, j + 1, Len(t))>>

\* After a blank, a brace that is never closed was read with a closed brace
\* inside it: the content keeps the inner braces, the rest is empty.
C11_Witness ==
    /\ fn = "_extract_latex_brace"
    /\ text = <<" ", "{", "{", "a", "}">>
    /\ result.items = <<<<"{", "a", "}">>, <<>>>>

\* The depth the scan has after the first i characters of s: up on an
\* opening bracket, down on a closing one but never below 0.
RECURSIVE ClampedDepth(_, _)
ClampedDepth(s, i) ==
    IF i = 0 THEN 0
    ELSE LET d == ClampedDepth(s, i - 1)
         IN  IF IsOpen(s[i]) THEN d + 1
             ELSE IF IsClose(s[i]) THEN (IF d > 0 THEN d - 1 ELSE 0)
             ELSE d

\* The closing brackets of s met while the depth is 0.
StrayClosers(s) ==
    {k \in 1..Len(s) : IsClose(s[k]) /\ ClampedDepth(s, k - 1) = 0}

\* C12: in _split_at_top_level_commas the depth counter is never negative: a
\* closing bracket met while the depth is 0 leaves it at 0, is kept in the
\* current part like any other character, and the scan goes on to the end of
\* the string.  The parts joined by "," are the whole string, and the cuts
\* are the commas met while the clamped depth is 0.
C12_StrayCloserKeptAndScanGoesOn ==
    fn = "_split_at_top_level_commas" =>
        /\ JoinComma(result.items) = text
        /\ CutPoints(result.items) =
               {i \in 1..Len(text) :
                   text[i] = "," /\ ClampedDepth(text, i - 1) = 0}

\* A closing bracket at depth 0 is followed by a comma: the bracket is in the
\* first part and the comma after it is a cut.
C12_Witness ==
    /\ fn = "_split_at_top_level_commas"
    /\ text = <<")", ",", "a">>
    /\ result.items = <<<<")">>, <<"a">>>>

\* C12 as stated: the scan stops at a closing bracket met while the depth is
\* 0 and does not consume it, so the parts hold only what stands before the
\* first such bracket.
C12_ScanStopsAtStrayCloser ==
    (fn = "_split_at_top_level_commas" /\ StrayClosers(text) # {}) =>
        JoinComma(result.items) = SubSeq(text, 1, SetMin(StrayClosers(text)) - 1)

\* The three tables one after the other.
AllCommands == GREEK_MAP \o SYMBOL_MAP \o FUNC_MAP

IsProperPrefix(a, b) == Len(a) < Len(b) /\ SubSeq(b, 1, Len(a)) = a

\* The entries whose command starts with another command of the tables.
LongerCommands ==
    {k \in 1..Len(AllCommands) :
        \E j \in 1..Len(AllCommands) :
            IsProperPrefix(AllCommands[j][1], AllCommands[k][1])}

\* C13: the substitution goes longest command first.  A command of the
\* Greek, symbol and function tables that starts with another command of
\* them, converted alone, gives exactly its own target and not the target of
\* the shorter command with letters after it; "\varepsilon" gives
\* "varepsilon".
C13_LongestCommandFirst ==
    fn = "latex_to_hwpeq" =>
        /\ \A k \in LongerCommands :
               text = AllCommands[k][1] =>
                   result.ret = "str" /\ result.items = AllCommands[k][2]
        /\ text = <<"\\", "v", "a", "r", "e", "p", "s", "i", "l", "o", "n">> =>
               result.ret = "str" /\ result.items = <<"v", "a", "r", "e", "p", "s", "i", "l", "o", "n">>

\* "\leq" starts with the command "\le" and was converted to its own target.
C13_Witness ==
    /\ fn = "latex_to_hwpeq"
    /\ text = <<"\\", "l", "e", "q">>
    /\ \E k \in LongerCommands : AllCommands[k][1] = text
    /\ \E j \in 1..Len(AllCommands) : AllCommands[j][1] = <<"\\", "l", "e">>
    /\ result.items = <<"L", "E", "Q">>

\* s with every run of spaces made one space and no space at either end.
Squeezed(s) ==
    LET keep == {i \in 1..Len(s) :
                    \/ s[i] # " "
                    \/ /\ i > 1
                       /\ s[i - 1] # " "
                       /\ \E j \in (i + 1)..Len(s) : s[j] # " "}
        at(k) == CHOOSE i \in keep : Cardinality({j \in keep : j < i}) = k - 1
    IN  [k \in 1..Cardinality(keep) |-> s[at(k)]]

\* The string an expression is converted to.
Transpiled(x) == latex_to_hwpeq(x).s

SameUpToSpaces(a, b) == Squeezed(a) = Squeezed(b)

\* C14: for all expressions a and b, "\frac{a}{b}" is converted to "{", a
\* converted, "} over {", b converted, "}", up to runs of spaces, a and b
\* each converted on its own; "\frac{1}{2}" gives "{1} over {2}".
C14_FracOfConvertedArguments ==
    fn = "latex_to_hwpeq" =>
        /\ \A a \in Operands, b \in Operands :
               text = FracOf(a, b) =>
                   /\ result.ret = "str"
                   /\ SameUpToSpaces(result.items,
                          <<"{">> \o Transpiled(a) \o <<"}", " ", "o", "v", "e", "r", " ", "{">>
                          \o Transpiled(b) \o <<"}">>)
        /\ text = <<"\\", "f", "r", "a", "c", "{", "1", "}", "{", "2", "}">> => result.items = <<"{", "1", "}", " ", "o", "v", "e", "r", " ", "{", "2", "}">>

\* "\op_{lo}^{hi}" and "\op^{hi}_{lo}" for the k-th big operator.
LowerThenUpper(k, lo, hi) ==
    <<"\\">> \o BigOps[k][1] \o <<"_", "{">> \o lo \o <<"}", "^", "{">> \o hi \o <<"}">>

UpperThenLower(k, lo, hi) ==
    <<"\\">> \o BigOps[k][1] \o <<"^", "{">> \o hi \o <<"}", "_", "{">> \o lo \o <<"}">>

\* C15: each of the nine big operators is converted to its own token, the
\* nine tokens differ from each other and the token of "\iint" is not the
\* token of "\int" twice; the token is followed by the lower bound as _{...}
\* and then the upper bound as ^{...}, each bound converted on its own;
\* "\sum_{i=0}^{n} i" gives "SUM", then "_{i=0}", then "^{n}".
C15_BigOperatorThenLowerThenUpper ==
    fn = "latex_to_hwpeq" =>
        /\ \A j, k \in 1..Len(BigOps) :
               /\ j # k => BigOps[j][2] # BigOps[k][2]
               /\ text = <<"\\">> \o BigOps[k][1] =>
                      result.ret = "str" /\ result.items = BigOps[k][2]
        /\ text = <<"\\", "i", "i", "n", "t">> => result.items # <<"I", "N", "T", "I", "N", "T">>
        /\ \A k \in 1..Len(BigOps) : \A lo \in Bounds, hi \in Bounds :
               (text = LowerThenUpper(k, lo, hi)
                    \/ text = UpperThenLower(k, lo, hi)) =>
                   /\ result.ret = "str"
                   /\ SameUpToSpaces(result.items,
                          BigOps[k][2] \o <<" ", "_", "{">> \o Transpiled(lo)
                          \o <<"}", " ", "^", "{">> \o Transpiled(hi) \o <<"}">>)
        /\ text = <<"\\", "s", "u", "m", "_", "{", "i", "=", "0", "}", "^", "{", "n", "}", " ", "i">> => result.items = <<"S", "U", "M", " ", "_", "{", "i", "=", "0", "}", " ", "^", "{", "n", "}", " ", "i">>

\* The token of a delimiter: named for a brace, none for ".", else itself.
DelimiterToken(d) ==
    IF d \in {<<"\\", "{">>, <<"{">>} THEN <<"l", "b", "r", "a", "c", "e">>
    ELSE IF d \in {<<"\\", "}">>, <<"}">>} THEN <<"r", "b", "r", "a", "c", "e">>
    ELSE IF d = <<".">> THEN <<>>
    ELSE d

\* C16: "\left d1 body \right d2", with the delimiters "\{" and "\}" and
\* with a body that holds another \left ... \right group among them, is
\* converted to "LEFT t1 body' RIGHT t2": a brace delimiter gives lbrace or
\* rbrace, the delimiters ( ) [ ] | stand for themselves, and a "." gives no
\* LEFT or RIGHT on its side.
C16_LeftRightDelimiters ==
    fn = "latex_to_hwpeq" =>
        \A d1 \in LeftDelimiters, d2 \in RightDelimiters, body \in Bodies :
            text = LeftRightOf(d1, body, d2) =>
                LET t1 == DelimiterToken(d1)
                    t2 == DelimiterToken(d2)
                IN  /\ result.ret = "str"
                    /\ SameUpToSpaces(result.items,
                           (IF t1 # <<>> THEN <<"L", "E", "F", "T", " ">> \o t1 \o <<" ">> ELSE <<>>)
                           \o Transpiled(body)
                           \o (IF t2 # <<>> THEN <<" ", "R", "I", "G", "H", "T", " ">> \o t2 ELSE <<>>))

\* c stands in s, character after character.
Occurs(c, s) ==
    \E i \in 1..(Len(s) - Len(c) + 1) : SubSeq(s, i, i + Len(c) - 1) = c

\* C17: the content of "\text{...}", "\mathrm{...}" and "\mathbf{...}" is
\* literal: for every content c the characters of c stand in the output
\* unchanged, no later stage rewrites anything inside c.
C17_TextContentIsLiteral ==
    fn = "latex_to_hwpeq" =>
        \A cmd \in TextCommands, c \in Contents :
            text = TextOf(cmd, c) =>
                result.ret = "str" /\ Occurs(c, result.items)

\* What cmd nested d levels deep around "1" is to be converted to.
RECURSIVE NestTarget(_, _)
NestTarget(cmd, d) ==
    IF d = 0 THEN <<"1">>
    ELSE IF cmd = "frac" THEN <<"{">> \o NestTarget(cmd, d - 1) \o <<"}", " ", "o", "v", "e", "r", " ", "{", "2", "}">>
    ELSE IF cmd = "sqrt" THEN <<"s", "q", "r", "t", " ", "{">> \o NestTarget(cmd, d - 1) \o <<"}">>
    ELSE <<"V", "E", "C", " ", "{">> \o NestTarget(cmd, d - 1) \o <<"}">>

\* C18: nested constructs compose at every depth: "\frac", "\sqrt" or an
\* accent nested d levels deep in the brace arguments of commands of its
\* kind is converted to the target construct nested in the same way, and no
\* "\frac" is left as it was or deleted by the cleanup.
C18_NestedConstructsCompose ==
    fn = "latex_to_hwpeq" =>
        \A cmd \in NestCommands, d \in 0..MaxNest :
            text = NestOf(cmd, d) =>
                /\ result.ret = "str"
                /\ SameUpToSpaces(result.items, NestTarget(cmd, d))

\* C19: when latex_to_hwpeq returns, no backslash of the output is followed
\* by a Latin letter: the cleanup has removed every command that no stage
\* before it resolved.
C19_NoCommandLeft ==
    (fn = "latex_to_hwpeq" /\ result.ret = "str") =>
        \A i \in 1..(Len(result.items) - 1) :
            ~(result.items[i] = "\\" /\ LatinLetter(result.items[i + 1]))

\* A command of no table was removed and the superscript after it kept.
C19_Witness ==
    /\ fn = "latex_to_hwpeq"
    /\ text = <<"\\", "a", "^", "a">>
    /\ result.ret = "str"
    /\ result.items = <<"^", "{", "a", "}">>

\* The characters of s that open a construct a stage can rewrite: a
\* command, a group, a superscript or a subscript.
Markers(s) == Cardinality({i \in 1..Len(s) : s[i] \in {"\\", "{", "^", "_"}})

----------------------------------------------------------------------------
(* The size of an equation (src/core/hwpx_writer.py): _visual_char_count,   *)
(* _estimate_equation_size and _measure_latex_size.                         *)

\* _SYMBOL_KEYWORDS, in the order of the list
SYMBOL_KEYWORDS ==
    <<<<"P", "L", "U", "S", "M", "I", "N", "U", "S">>, <<"M", "I", "N", "U", "S", "P", "L", "U", "S">>, <<"S", "M", "A", "L", "L", "U", "N", "I", "O", "N">>, <<"S", "M", "A", "L", "L", "I", "N", "T", "E", "R">>,
      <<"A", "P", "P", "R", "O", "X">>, <<"P", "R", "O", "P", "T", "O">>, <<"L", "A", "P", "L", "A", "C", "E">>, <<"B", "U", "L", "L", "E", "T">>, <<"T", "R", "I", "A", "N", "G", "L", "E">>,
      <<"D", "I", "A", "M", "O", "N", "D">>, <<"S", "Q", "U", "A", "R", "E">>,
      <<"E", "Q", "U", "I", "V">>, <<"S", "I", "M", "E", "Q">>, <<"A", "S", "Y", "M", "P">>, <<"D", "O", "T", "E", "Q">>,
      <<"T", "I", "M", "E", "S">>, <<"C", "D", "O", "T">>, <<"E", "X", "I", "S", "T">>,
      <<"W", "E", "D", "G", "E">>, <<"L", "N", "O", "T">>, <<"O", "P", "L", "U", "S">>, <<"O", "T", "I", "M", "E", "S">>,
      <<"V", "D", "A", "S", "H">>, <<"M", "O", "D", "E", "L", "S">>,
      <<"P", "R", "E", "C">>, <<"S", "U", "C", "C">>, <<"C", "O", "N", "G">>, <<"O", "W", "N", "S">>, <<"C", "I", "R", "C">>, <<"S", "T", "A", "R">>,
      <<"D", "I", "V">>, <<"L", "E", "Q">>, <<"G", "E", "Q">>, <<"S", "I", "M">>, <<"V", "E", "E">>, <<"B", "O", "T">>, <<"T", "O", "P">>,
      <<"v", "a", "r", "e", "p", "s", "i", "l", "o", "n">>, <<"v", "a", "r", "t", "h", "e", "t", "a">>, <<"v", "a", "r", "p", "h", "i">>,
      <<"e", "p", "s", "i", "l", "o", "n">>, <<"u", "p", "s", "i", "l", "o", "n">>, <<"l", "a", "m", "b", "d", "a">>,
      <<"a", "l", "p", "h", "a">>, <<"b", "e", "t", "a">>, <<"g", "a", "m", "m", "a">>, <<"d", "e", "l", "t", "a">>, <<"z", "e", "t", "a">>, <<"e", "t", "a">>, <<"t", "h", "e", "t", "a">>,
      <<"i", "o", "t", "a">>, <<"k", "a", "p", "p", "a">>, <<"m", "u">>, <<"n", "u">>, <<"x", "i">>, <<"p", "i">>, <<"r", "h", "o">>, <<"s", "i", "g", "m", "a">>,
      <<"t", "a", "u">>, <<"p", "h", "i">>, <<"c", "h", "i">>, <<"p", "s", "i">>, <<"o", "m", "e", "g", "a">>,
      <<"p", "a", "r", "t", "i", "a", "l">>, <<"t", "h", "e", "r", "e", "f", "o", "r", "e">>, <<"b", "e", "c", "a", "u", "s", "e">>, <<"f", "o", "r", "a", "l", "l">>, <<"e", "x", "i", "s", "t", "s">>,
      <<"e", "m", "p", "t", "y", "s", "e", "t">>, <<"s", "u", "b", "s", "e", "t", "e", "q">>, <<"s", "u", "p", "s", "e", "t", "e", "q">>, <<"s", "u", "b", "s", "e", "t">>, <<"s", "u", "p", "s", "e", "t">>,
      <<"n", "o", "t", "i", "n">>, <<"p", "a", "r", "a", "l", "l", "e", "l">>,
      <<"i", "n", "f", "t", "y">>, <<"p", "r", "i", "m", "e">>, <<"d", "p", "r", "i", "m", "e">>, <<"a", "n", "g", "l", "e">>, <<"n", "a", "b", "l", "a">>, <<"b", "u", "l", "l", "e", "t">>,
      <<"a", "p", "p", "r", "o", "x">>, <<"p", "r", "o", "p", "t", "o">>, <<"e", "q", "u", "i", "v">>, <<"n", "e", "q">>, <<"l", "e", "q">>, <<"g", "e", "q">>, <<"s", "i", "m">>,
      <<"c", "d", "o", "t">>, <<"t", "i", "m", "e", "s">>, <<"d", "i", "v">>, <<"p", "m">>, <<"m", "p">>, <<"i", "n", "f">>, <<"i", "n">>>>

\* _LARGE_OP_KEYWORDS
LARGE_OP_KEYWORDS == <<<<"S", "U", "M">>, <<"P", "R", "O", "D">>, <<"O", "I", "N", "T">>, <<"D", "I", "N", "T">>, <<"T", "I", "N", "T">>, <<"I", "N", "T">>>>

\* _STRUCT_KEYWORDS
STRUCT_KEYWORDS ==
    <<<<"e", "q", "a", "l", "i", "g", "n">>, <<"m", "a", "t", "r", "i", "x">>, <<"c", "a", "s", "e", "s">>, <<"p", "i", "l", "e">>,
      <<"s", "q", "r", "t">>, <<"r", "o", "o", "t">>, <<"o", "f">>,
      <<"o", "v", "e", "r">>, <<"a", "t", "o", "p">>,
      <<"f", "r", "o", "m">>, <<"l", "e", "f", "t">>, <<"r", "i", "g", "h", "t">>,
      <<"r", "o", "m", "a", "n">>, <<"b", "o", "l", "d">>, <<"i", "t", "a", "l">>,
      <<"t", "o">>>>

\* The pairs (kw, rep) of a loop "for kw in keywords: s = s.replace(kw, rep)".
KeywordItems(keywords, rep) == [i \in 1..Len(keywords) |-> <<keywords[i], rep>>]

\* needle in s, for a needle of any length
Contains(s, needle) == Find(s, 1, needle) > 0

\* [\^_]\{([^{}]*)\} matched at position i of s: the position of the closing
\* brace, 0 when there is no match at i.
ScriptBraceAt(s, i) ==
    IF i < Len(s) /\ s[i] \in {"^", "_"} /\ s[i + 1] = "{"
    THEN LET q == First({x \in (i + 2)..Len(s) : s[x] \in {"{", "}"}})
         IN  IF q > 0 /\ s[q] = "}" THEN q ELSE 0
    ELSE 0

\* len(x.replace(" ", ""))
LenNoSpace(x) == Cardinality({i \in 1..Len(x) : x[i] # " "})

\* The finditer loop over [\^_]\{([^{}]*)\} and the re.sub with the same
\* pattern, in one pass from match to match: n is sup_sub_chars so far, out
\* the part of s_no_brace built so far.
RECURSIVE ScriptBraceLoop(_, _, _, _)
ScriptBraceLoop(s, i, n, out) ==
    LET q == First({x \in i..Len(s) : ScriptBraceAt(s, x) > 0})
    IN  IF q = 0 THEN [n |-> n, s_no_brace |-> out \o Slice(s, i, Len(s))]
        ELSE ScriptBraceLoop(s, ScriptBraceAt(s, q) + 1,
                             n + LenNoSpace(Slice(s, q + 2, ScriptBraceAt(s, q) - 1)),
                             out \o Slice(s, i, q - 1))

\* \S of a str pattern: no white space
NonSpace(c) == c \notin {" ", "\t", "\n", "\r", "U+000B", "U+000C"}

\* [\^_](\S) at position i
ScriptCharAt(s, i) == i < Len(s) /\ s[i] \in {"^", "_"} /\ NonSpace(s[i + 1])

\* The number of matches of re.finditer(r'[\^_](\S)', s) from position i on;
\* a match takes two characters.
RECURSIVE ScriptCharCount(_, _)
ScriptCharCount(s, i) ==
    LET q == First({x \in i..Len(s) : ScriptCharAt(s, x)})
    IN  IF q = 0 THEN 0 ELSE 1 + ScriptCharCount(s, q + 2)

\* for ch in "{}^_": s = s.replace(ch, ""), then len(s.replace(" ", "").strip())
VisibleTotal(s) ==
    Len(Strip(SelectSeq(s, LAMBDA c : c \notin {"{", "}", "^", "_", " "})))

\* The string after the three keyword loops.
FoldKeywords(script) ==
    LET g == KeywordItems(SYMBOL_KEYWORDS, <<"G">>)
        w == KeywordItems(LARGE_OP_KEYWORDS, <<"W">>)
        z == KeywordItems(STRUCT_KEYWORDS, <<>>)
    IN  ReplaceEach(ReplaceEach(ReplaceEach(script, g, 1, Len(g)), w, 1, Len(w)),
                    z, 1, Len(z))

\* base + sup_sub_chars * 0.5 for the folded string s and the outcome b of
\* the loop over the braced scripts.  The value is a multiple of 0.5; it is
\* kept as the number of halves, 2 * base + sup_sub_chars.
CountHalves(s, b) ==
    2 * VisibleTotal(s) - (b.n + ScriptCharCount(b.s_no_brace, 1))

\* The count of the folded string s.
CountFolded(s) == CountHalves(s, ScriptBraceLoop(s, 1, 0, <<>>))

\* _visual_char_count(text), in halves of a character
visual_char_count(script) == CountFolded(FoldKeywords(script))

\* str.split(sep): the pieces between the occurrences of sep from left to
\* right, none overlapping.
RECURSIVE SplitOn(_, _, _, _)
SplitOn(s, sep, i, parts) ==
    LET q == Find(s, i, sep)
    IN  IF q = 0 THEN Append(parts, Slice(s, i, Len(s)))
        ELSE SplitOn(s, sep, q + Len(sep), Append(parts, Slice(s, i, q - 1)))

\* max(_visual_char_count(p) for p in parts)
MaxCount(parts) ==
    LET counts == {visual_char_count(parts[k]) : k \in DOMAIN parts}
    IN  CHOOSE c \in counts : \A d \in counts : d <= c

\* CHAR_WIDTH = 650
CHAR_WIDTH == 650

\* PADDING = 200
PADDING == 200

\* int(x) of a float: the fraction is cut off, toward zero.  x is n / d.
Trunc(n, d) == IF n >= 0 THEN n \div d ELSE -((-n) \div d)

\* Mutant: no least width.
AtLeast_NoFloor(w, least) == w

\* max(w, least)
AtLeast(w, least) == Max(w, least)

\* The power of two p with p <= n < 2p, for n >= 1.
RECURSIVE BinadeOf(_, _)
BinadeOf(n, p) == IF 2 * p > n THEN p ELSE BinadeOf(n, 2 * p)

\* int(width * 1.4) for an integer width >= 0.  1.4 is the binary64 number
\* next to it, 1.4 - 0.4 / 2^52, and the product is rounded to binary64: a
\* product that is no integer keeps its integer part; a product 7w/5 = N
\* that is one comes out as N when N <= 1.75 * 2^e and as the binary64 number
\* below N, so N - 1 after int, when N is in the upper quarter of its binade
\* [2^e, 2^(e+1)).
Times14(width) ==
    IF (7 * width) % 5 # 0 \/ width = 0 THEN (7 * width) \div 5
    ELSE LET N == (7 * width) \div 5
         IN  IF 4 * N <= 7 * BinadeOf(N, 1) THEN N ELSE N - 1

\* The size a call returns.
Size(w, h) == [ret |-> "size", exc |-> "", items |-> <<w, h>>]

\* visible_len, in halves
SideCount(script, has_fraction) ==
    IF has_fraction
    THEN MaxCount(SplitOn(Replace(script, <<"a", "t", "o", "p">>, <<"o", "v", "e", "r">>), <<"o", "v", "e", "r">>, 1, <<>>))
    ELSE visual_char_count(script)

\* width of _estimate_equation_size: int(visible_len * CHAR_WIDTH) is
\* Trunc(halves * CHAR_WIDTH, 2).
EstimateWidth(halves, has_fraction, has_sqrt) ==
    LET w0 == AtLeast(Trunc(halves * CHAR_WIDTH, 2) + PADDING, 800)
        w1 == IF has_fraction THEN Times14(w0) ELSE w0
    IN  IF has_sqrt THEN Times14(w1) ELSE w1

\* height of _estimate_equation_size
EstimateHeight(has_fraction, has_sqrt) ==
    LET h0 == IF has_fraction THEN 2400 ELSE 1200
        h1 == IF has_sqrt THEN Max(h0, 1600) ELSE h0
    IN  IF has_fraction /\ has_sqrt THEN Max(h1, 3200) ELSE h1

EstimateOf(script, has_fraction, has_sqrt) ==
    <<EstimateWidth(SideCount(script, has_fraction), has_fraction, has_sqrt),
      EstimateHeight(has_fraction, has_sqrt)>>

\* _estimate_equation_size(hwp_eq_script): the pair (width, height)
estimate_equation_size(script) ==
    EstimateOf(script,
               Contains(script, <<"o", "v", "e", "r">>) \/ Contains(script, <<"a", "t", "o", "p">>),
               Contains(script, <<"s", "q", "r", "t">>) \/ Contains(script, <<"r", "o", "o", "t">>))

----------------------------------------------------------------------------
(* _measure_latex_size.  The font metrics are the environment of the call:  *)
(* m.available is whether matplotlib can be imported and every measurement  *)
(* succeeds, m.width the width int(bb.width * 100) it reports for a string  *)
(* that is not blank.                                                       *)

\* re.search(r"\\(?:d?frac)\s*\{", latex): the match at position i as the
\* position of its opening brace, 0 when there is none at i.
FracOpenAt(s, i) ==
    LET n == IF StartsAt(s, i, <<"\\", "f", "r", "a", "c">>) THEN 5
             ELSE IF StartsAt(s, i, <<"\\", "d", "f", "r", "a", "c">>) THEN 6 ELSE 0
        b == SkipWhile(s, i + n, Whitespace)
    IN  IF n > 0 /\ b <= Len(s) /\ s[b] = "{" THEN b ELSE 0

\* mpl_width(expr, fontsize): 0 for a blank expression
mpl_width(m, expr) == IF Strip(expr) = <<>> THEN 0 ELSE m.width

\* "w += 200" when the part before or after the fraction has a width
Gap(w) == IF w # 0 THEN 200 ELSE 0

\* w of the fraction branch
ComposeWidth(w_prefix, w_num, w_den, w_suffix) ==
    w_prefix + Gap(w_prefix) + Max(w_num, w_den) + 300 + Gap(w_suffix) + w_suffix

\* The fraction branch: q is the position of the opening brace of the
\* numerator, num and den the pairs _extract_latex_brace returns.
MeasureFraction(m, latex, prefix, num, den) ==
    Size(AtLeast(ComposeWidth(IF prefix # <<>> THEN mpl_width(m, prefix) ELSE 0,
                              mpl_width(m, num[1]), mpl_width(m, den[1]),
                              IF Strip(den[2]) # <<>>
                              THEN mpl_width(m, Strip(den[2])) ELSE 0),
                 800),
         IF Contains(latex, <<"\\", "s", "q", "r", "t">>) THEN Max(2400, 3200) ELSE 2400)

MeasureFrom(m, latex, i, q) ==
    IF i = 0
    THEN Size(AtLeast(mpl_width(m, latex), 800),
              IF Contains(latex, <<"\\", "s", "q", "r", "t">>) THEN 1600 ELSE 1200)
    ELSE MeasureFraction(m, latex, Strip(Slice(latex, 1, i - 1)),
                         extract_latex_brace(Slice(latex, q, Len(latex))),
                         extract_latex_brace(
                             extract_latex_brace(Slice(latex, q, Len(latex)))[2]))

MeasureAt(m, latex, i) == MeasureFrom(m, latex, i, IF i = 0 THEN 0 ELSE FracOpenAt(latex, i))

\* Mutant: the exception of the measurement leaves the function.
measure_latex_size_Raises(m, latex) ==
    IF ~m.available THEN Raise("ImportError")
    ELSE MeasureAt(m, latex, First({x \in 1..Len(latex) : FracOpenAt(latex, x) > 0}))

\* _measure_latex_size(latex) with the metrics m: (width, height), or None
\* when anything in the try block raised.
measure_latex_size(m, latex) ==
    IF ~m.available THEN RetNone
    ELSE MeasureAt(m, latex, First({x \in 1..Len(latex) : FracOpenAt(latex, x) > 0}))

----------------------------------------------------------------------------
(* HWPXWriter._insert_equation with _inject_equation_xml,                   *)
(* _inject_equation_image, _create_run and _set_run_text.  The paragraph is *)
(* the sequence of the children appended to p_elem.  The environment of a    *)
(* call: env.metrics as for _measure_latex_size, env.image whether           *)
(* latex_to_image renders the PNG (it raises otherwise).                     *)

\* The characters lxml refuses in the text of an element (ValueError: "All
\* strings must be XML compatible: Unicode or ASCII, no NULL bytes or control
\* characters"), as far as the inputs have them.
ControlChars == {"U+0000", "U+000B", "U+000C"}

\* elem.text = s succeeds
XmlCompatible(s) == \A i \in 1..Len(s) : s[i] \notin ControlChars

\* The run with the hp:equation element; scripted is whether hp:script got
\* its text.
EquationRun(script, size, scripted) ==
    [kind |-> "equation", script |-> script, size |-> size, scripted |-> scripted]

\* The run with the hp:pic element of _inject_equation_image.
ImageRun(alt) == [kind |-> "image", alt |-> alt]

\* The run of _create_run with the hp:t element of _set_run_text; texted is
\* whether hp:t got its text.
TextRun(t, texted) == [kind |-> "text", value |-> t, texted |-> texted]

\* How a call of _insert_equation ends: the paragraph, the exception that
\* left the call if one did, and what _measure_latex_size returned.
Inserted(p, measured) ==
    [ret |-> "None", exc |-> "", items |-> p, measured |-> measured]

InsertRaised(e, p, measured) ==
    [ret |-> "raise", exc |-> e, items |-> p, measured |-> measured]

\* The last resort of the inner except block, lines 529-532.
LastResort(latex, p, measured) ==
    IF XmlCompatible(latex)
    THEN Inserted(p \o <<TextRun(<<"[">> \o latex \o <<"]">>, TRUE)>>, measured)
    ELSE InsertRaised("ValueError", p \o <<TextRun(<<>>, FALSE)>>, measured)

\* The outer except block, lines 523-532.
ImageFallback(env, latex, p, measured) ==
    IF env.image THEN Inserted(p \o <<ImageRun(latex)>>, measured)
    ELSE LastResort(latex, p, measured)

\* _inject_equation_xml(p_elem, hwp_eq, size): the elements are appended
\* before the script is set in the last statement.
InjectEquationXml(env, latex, hwp_eq, size, measured) ==
    IF XmlCompatible(hwp_eq)
    THEN Inserted(<<EquationRun(hwp_eq, size, TRUE)>>, measured)
    ELSE ImageFallback(env, latex, <<EquationRun(<<>>, size, FALSE)>>, measured)

\* size = measured_size, or _estimate_equation_size(hwp_eq_script) for None
SizeFor(hwp_eq, m) ==
    IF m.ret = "None" THEN estimate_equation_size(hwp_eq) ELSE m.items

AfterMeasure(env, latex, hwp_eq, m) ==
    IF m.ret = "raise" THEN ImageFallback(env, latex, <<>>, "raise")
    ELSE InjectEquationXml(env, latex, hwp_eq, SizeFor(hwp_eq, m), m.ret)

AfterTranspile(env, latex, r) ==
    IF r.ret = "raise" THEN ImageFallback(env, latex, <<>>, "skipped")
    ELSE AfterMeasure(env, latex, r.items, measure_latex_size(env.metrics, latex))

\* HWPXWriter._insert_equation(p_elem, latex)
insert_equation(env, latex) ==
    AfterTranspile(env, latex, RetStr(latex_to_hwpeq(latex)))

----------------------------------------------------------------------------
(* The inputs and the state machine of the equation writer: one call of one *)
(* function on one string.                                                  *)

MaxTokens == 3
MaxLenNumerator == 4

\* What the scripts are made of: characters, blanks, script marks, braces
\* and keywords of the three lists.
ScriptTokens ==
    {<<"a">>, <<"1">>, <<" ">>, <<"{">>, <<"}">>, <<"^">>, <<"_">>, <<"o", "v", "e", "r">>, <<"s", "q", "r", "t">>, <<"e", "t", "a">>, <<"S", "U", "M">>}

\* The strings of at most n tokens.
TokenStrings(n) == UNION {{Flatten(ts) : ts \in [1..k -> ScriptTokens]} : k \in 0..n}

\* Every keyword of the three lists, alone.
KeywordTexts ==
    {SYMBOL_KEYWORDS[k] : k \in DOMAIN SYMBOL_KEYWORDS}
    \cup {LARGE_OP_KEYWORDS[k] : k \in DOMAIN LARGE_OP_KEYWORDS}
    \cup {STRUCT_KEYWORDS[k] : k \in DOMAIN STRUCT_KEYWORDS}

NumeratorAlphabet == {"e", "t", "a"}

Denominators == {<<"1">>, <<"a", "a", "a">>}

\* numerator, separator, denominator
FractionOf(n, d) == n \o <<" ", "o", "v", "e", "r", " ">> \o d

FractionTexts ==
    {FractionOf(n, d) : n \in Strings(NumeratorAlphabet, MaxLenNumerator),
                        d \in Denominators}

\* LaTeX as the OCR record gives it; the last one has a form feed where the
\* JSON text had the unescaped "\f" of "\frac".
SampleEquations ==
    { <<"\\", "f", "r", "a", "c", "{", "1", "}", "{", "2", "}">>, <<"x", "=", "\\", "f", "r", "a", "c", "{", "a", "}", "{", "b", "}", "+", "1">>, <<"\\", "d", "f", "r", "a", "c", " ", "{", "a", "}", "{", "b", "}">>, <<"\\", "s", "q", "r", "t", "{", "x", "}">>,
      <<"\\", "s", "q", "r", "t", "{", "\\", "f", "r", "a", "c", "{", "1", "}", "{", "2", "}", "}">>, <<"\\", "t", "h", "e", "t", "a">>, <<"\\", "s", "u", "m", "_", "{", "i", "=", "0", "}", "^", "{", "n", "}">>,
      <<"x", "=">> \o <<"U+000C">> \o <<"r", "a", "c", "{", "1", "}", "{", "2", "}">> }

WriterTexts ==
    TokenStrings(MaxTokens) \cup KeywordTexts \cup FractionTexts \cup SampleEquations

\* int(bb.width * 100) of a measurement
Widths == {0, 500, 1200}

Metrics ==
    {[available |-> FALSE, width |-> 0]}
    \cup {[available |-> TRUE, width |-> w] : w \in Widths}

Environments ==
    {[metrics |-> m, image |-> i] :
        m \in {[available |-> FALSE, width |-> 0], [available |-> TRUE, width |-> 1200]},
        i \in BOOLEAN}

InitWriter ==
    /\ text \in WriterTexts
    /\ arg = ""
    /\ fn = "init"
    /\ result = RetNone
    /\ NoThreads

Call_visual_char_count ==
    /\ fn = "init"
    /\ fn' = "_visual_char_count"
    /\ result' = [ret |-> "float", exc |-> "", items |-> visual_char_count(text)]
    /\ UNCHANGED <<text, arg, threadVars>>

Call_estimate_equation_size ==
    /\ fn = "init"
    /\ fn' = "_estimate_equation_size"
    /\ result' = [ret |-> "size", exc |-> "", items |-> estimate_equation_size(text)]
    /\ UNCHANGED <<text, arg, threadVars>>

Call_measure_latex_size ==
    /\ fn = "init"
    /\ \E m \in Metrics :
          /\ arg' = m
          /\ result' = measure_latex_size(m, text)
    /\ fn' = "_measure_latex_size"
    /\ UNCHANGED <<text, threadVars>>

Call_insert_equation ==
    /\ fn = "init"
    /\ \E env \in Environments :
          /\ arg' = env
          /\ result' = insert_equation(env, text)
    /\ fn' = "_insert_equation"
    /\ UNCHANGED <<text, threadVars>>

NextWriter ==
    \/ Call_visual_char_count
    \/ Call_estimate_equation_size
    \/ Call_measure_latex_size
    \/ Call_insert_equation

SpecWriter == InitWriter /\ [][NextWriter]_vars

----------------------------------------------------------------------------
(* Calls of latex_to_hwpeq and of the segmentation functions on several     *)
(* threads.  text, fn and result are what the caller on each thread passed  *)
(* and got back; frames holds the variables of each call while it runs, and *)
(* the attributes of the _converter singleton a call may have written.      *)
(* A call of latex_to_hwpeq goes on stage by stage, a call of a             *)
(* segmentation function in one step after its entry; between two steps of  *)
(* a thread any other thread may run.                                       *)

Threads == {"t1", "t2"}

\* The frames of the threads, and the instance _converter = LaTeXToHWPConverter()
Holders == Threads \cup {"_converter"}

\* Mutant: the string in work is an attribute of the instance.
Holder_OnSelf(t) == "_converter"

\* Where the variables s, result, blocks, ... of the call of thread t are:
\* they are locals of the function, so each call has its own.
Holder(t) == t

\* A frame no call has written.
NoFrame == [t |-> Trace(<<>>, 0), ctx |-> [d |-> 0, caller |-> <<>>], k |-> 0]

\* LaTeX the threads convert
ThreadLatex == {<<"\\", "f", "r", "a", "c", "{", "1", "}", "{", "2", "}">>, <<"x", "^", "2">>, <<"\\", "a", "l", "p", "h", "a">>}

\* Text the threads segment
ThreadTexts == {<<"a", ",", "b">>, <<"a", " ", "U+AC00">>, <<"$", "a", "$">>}

SegmentFunctions ==
    {"_split_at_top_level_commas", "_split_mixed_text_equation", "_split_inline_latex"}

\* What a segmentation function returns for s.
Segmented(f, s) ==
    IF f = "_split_at_top_level_commas"
    THEN [ret |-> "parts", exc |-> "", items |-> split_at_top_level_commas(s)]
    ELSE IF f = "_split_mixed_text_equation"
    THEN RetList(split_mixed_text_equation(s))
    ELSE RetList(split_inline_latex(s))

\* The frame at the entry of _convert_expr for the string s; _convert_expr
\* returns "" at once for an empty s.
EntryFrame(s) ==
    [t |-> Trace(s, 1), ctx |-> [d |-> 1, caller |-> s],
     k |-> IF s = <<>> THEN Len(Stages) + 1 ELSE 1]

\* The frame after stage f.k.
StageFrame(f) == [f EXCEPT !.t = Stage(Stages[f.k], f.t, f.ctx), !.k = f.k + 1]

InitThreads ==
    /\ text = [t \in Threads |-> <<>>]
    /\ arg = ""
    /\ fn = [t \in Threads |-> "init"]
    /\ result = [t \in Threads |-> RetNone]
    /\ pc = [t \in Threads |-> "idle"]
    /\ frames = [h \in Holders |-> NoFrame]
    /\ worker = <<>>
    /\ signals = <<>>

\* The caller on thread t calls latex_to_hwpeq(latex): convert up to the call
\* of _convert_expr.
Thread_latex_to_hwpeq(t) ==
    /\ pc[t] = "idle"
    /\ \E latex \in ThreadLatex :
          /\ text' = [text EXCEPT ![t] = latex]
          /\ frames' = [frames EXCEPT ![Holder(t)] = EntryFrame(ConvertPre(latex))]
    /\ fn' = [fn EXCEPT ![t] = "latex_to_hwpeq"]
    /\ pc' = [pc EXCEPT ![t] = "stage"]
    /\ UNCHANGED <<arg, result, worker, signals>>

\* One stage of _convert_expr.
Thread_stage(t) ==
    /\ pc[t] = "stage"
    /\ frames[Holder(t)].k <= Len(Stages)
    /\ frames' = [frames EXCEPT ![Holder(t)] = StageFrame(@)]
    /\ UNCHANGED <<text, arg, fn, result, pc, worker, signals>>

\* _convert_expr returns, convert cleans the blanks and returns.
Thread_return(t) ==
    /\ pc[t] = "stage"
    /\ frames[Holder(t)].k > Len(Stages)
    /\ result' = [result EXCEPT ![t] = RetStr(ConvertPost(frames[Holder(t)].t))]
    /\ pc' = [pc EXCEPT ![t] = "done"]
    /\ UNCHANGED <<text, arg, fn, frames, worker, signals>>

\* The caller on thread t calls a segmentation function: the argument is
\* bound in the frame.
Thread_segment(t) ==
    /\ pc[t] = "idle"
    /\ \E f \in SegmentFunctions, s \in ThreadTexts :
          /\ text' = [text EXCEPT ![t] = s]
          /\ fn' = [fn EXCEPT ![t] = f]
          /\ frames' = [frames EXCEPT ![Holder(t)] = [NoFrame EXCEPT !.t = Trace(s, 0)]]
    /\ pc' = [pc EXCEPT ![t] = "body"]
    /\ UNCHANGED <<arg, result, worker, signals>>

\* The body of the segmentation function runs over its argument and returns.
Thread_segment_return(t) ==
    /\ pc[t] = "body"
    /\ result' = [result EXCEPT ![t] = Segmented(fn[t], frames[Holder(t)].t.s)]
    /\ pc' = [pc EXCEPT ![t] = "done"]
    /\ UNCHANGED <<text, arg, fn, frames, worker, signals>>

NextThreads ==
    \E t \in Threads :
        \/ Thread_latex_to_hwpeq(t)
        \/ Thread_stage(t)
        \/ Thread_return(t)
        \/ Thread_segment(t)
        \/ Thread_segment_return(t)

SpecThreads == InitThreads /\ [][NextThreads]_vars

----------------------------------------------------------------------------
(* The conversion worker (src/gui/main_window.py): ConversionWorker.run on  *)
(* the worker thread, MainWindow._cancel_conversion and                     *)
(* MainWindow._on_preview_requested on the GUI side.  worker holds the      *)
(* attributes of the ConversionWorker the threads share, signals the        *)
(* signals it has emitted in their order, frames the local variables of     *)
(* _do_conversion and the attributes of the window, pc the position of the  *)
(* worker thread, of a call of cancel() and of the preview slot.  The       *)
(* steps of the three interleave freely: an attribute is read or written    *)
(* in a step of its own wherever another thread may read or write it.       *)

\* The most pages a file has.
MaxPages == 2

\* The most times the cancel button is pressed during one conversion.
MaxCancels == 2

\* What check_image_quality finds for a page: passed without warnings,
\* passed with warnings, not passed.
Qualities == {"clean", "warned", "failed"}

\* The lists of pages pdf_to_images or load_image can return.
ImageLists == UNION {[1..n -> Qualities] : n \in 0..MaxPages}

\* A call into a library returns or raises an Exception.
Outcomes == {"ok", "raise"}

\* __init__: _cancelled, _preview_event, _preview_approved
NewWorker == [_cancelled |-> FALSE, _preview_event |-> FALSE, _preview_approved |-> FALSE]

\* The terminal signals.
Terminal == {"finished", "error"}

\* signal.emit(...)
Emit(sigs, name) == Append(sigs, name)

\* Mutant: the exception of a step is swallowed.
run_except_Silent(sigs) == sigs

\* run: except Exception as e: ... self.error.emit(...)
run_except(sigs) == Emit(sigs, "error")

\* Mutant: cancel() only sets the flag.
cancel_wake_Never(w) == w

\* cancel: self._preview_event.set()
cancel_wake(w) == [w EXCEPT !._preview_event = TRUE]

\* The signals of one pass of the Gate 1 loop for a page of quality q.
GateSignals(sigs, q) == IF q = "clean" THEN sigs ELSE Emit(sigs, "quality_warning")

InitWorker ==
    /\ text = <<>>
    /\ arg = ""
    /\ fn = "run"
    /\ result = RetNone
    /\ pc = [worker |-> "run", cancel |-> "idle", preview |-> "idle"]
    /\ frames = [images |-> <<>>, i |-> 0, valid_indices |-> <<>>, seq |-> 0,
                 resumed |-> <<>>, written |-> FALSE,
                 _worker |-> TRUE, cancels |-> 0, in_wait |-> FALSE]
    /\ worker = NewWorker
    /\ signals = <<>>

\* The worker thread ends with the signals sigs emitted.
Finish(sigs) ==
    /\ signals' = sigs
    /\ pc' = [pc EXCEPT !.worker = "done"]

\* The step raises: the except clause of run, and run returns.
Raise_in_run == Finish(run_except(signals))

\* Step 1 of _do_conversion: the file is loaded.
Worker_load ==
    /\ pc.worker = "run"
    /\ \/ /\ Finish(run_except(Emit(signals, "progress")))
          /\ UNCHANGED frames
       \/ \E images \in ImageLists :
             /\ frames' = [frames EXCEPT !.images = images, !.i = 1]
             /\ signals' = Emit(Emit(Emit(signals, "progress"), "progress"), "progress")
             /\ pc' = [pc EXCEPT !.worker = "gate1"]
    /\ UNCHANGED <<text, arg, fn, result, worker>>

\* One pass of the Gate 1 loop.
Worker_gate1 ==
    /\ pc.worker = "gate1"
    /\ frames.i <= Len(frames.images)
    /\ IF worker._cancelled
       THEN /\ Finish(Emit(signals, "error"))
            /\ UNCHANGED frames
       ELSE \/ /\ Raise_in_run
               /\ UNCHANGED frames
            \/ /\ signals' = GateSignals(signals, frames.images[frames.i])
               /\ frames' = [frames EXCEPT
                     !.i = @ + 1,
                     !.valid_indices =
                         IF frames.images[frames.i] = "failed" THEN @
                         ELSE Append(@, frames.i)]
               /\ UNCHANGED pc
    /\ UNCHANGED <<text, arg, fn, result, worker>>

\* After Gate 1: no valid page is an error; else the OCR engine is made.
Worker_gate1_end ==
    /\ pc.worker = "gate1"
    /\ frames.i > Len(frames.images)
    /\ IF frames.valid_indices = <<>>
       THEN /\ Finish(Emit(signals, "error"))
            /\ UNCHANGED frames
       ELSE \/ /\ Raise_in_run
               /\ UNCHANGED frames
            \/ /\ signals' = IF Len(frames.valid_indices) < Len(frames.images)
                             THEN Emit(signals, "progress") ELSE signals
               /\ frames' = [frames EXCEPT !.seq = 1]
               /\ pc' = [pc EXCEPT !.worker = "ocr"]
    /\ UNCHANGED <<text, arg, fn, result, worker>>

\* One pass of the OCR loop: recognize_page, Gate 2, parse_ocr_response.
Worker_ocr ==
    /\ pc.worker = "ocr"
    /\ frames.seq <= Len(frames.valid_indices)
    /\ IF worker._cancelled
       THEN /\ Finish(Emit(signals, "error"))
            /\ UNCHANGED frames
       ELSE \/ /\ Finish(run_except(Emit(signals, "progress")))
               /\ UNCHANGED frames
            \/ \E warned \in BOOLEAN :
                  /\ signals' = IF warned
                                THEN Emit(Emit(signals, "progress"), "ocr_warning")
                                ELSE Emit(signals, "progress")
                  /\ frames' = [frames EXCEPT !.seq = @ + 1]
                  /\ UNCHANGED pc
    /\ UNCHANGED <<text, arg, fn, result, worker>>

\* After the OCR loop: progress(78) and self._preview_event.clear()
Worker_clear ==
    /\ pc.worker = "ocr"
    /\ frames.seq > Len(frames.valid_indices)
    /\ signals' = Emit(signals, "progress")
    /\ worker' = [worker EXCEPT !._preview_event = FALSE]
    /\ pc' = [pc EXCEPT !.worker = "reset"]
    /\ UNCHANGED <<text, arg, fn, result, frames>>

\* self._preview_approved = False
Worker_reset ==
    /\ pc.worker = "reset"
    /\ worker' = [worker EXCEPT !._preview_approved = FALSE]
    /\ pc' = [pc EXCEPT !.worker = "request"]
    /\ UNCHANGED <<text, arg, fn, result, frames, signals>>

\* self.preview_requested.emit(page_infos): the slot is queued for the GUI
\* thread.
Worker_request ==
    /\ pc.worker = "request"
    /\ signals' = Emit(signals, "preview_requested")
    /\ pc' = [pc EXCEPT !.worker = "wait", !.preview = "queued"]
    /\ UNCHANGED <<text, arg, fn, result, frames, worker>>

\* self._preview_event.wait() returns when the event is set; resumed is
\* what the attributes are at that moment.
Worker_wait ==
    /\ pc.worker = "wait"
    /\ worker._preview_event
    /\ frames' = [frames EXCEPT !.resumed = <<worker>>]
    /\ pc' = [pc EXCEPT !.worker = "if_cancelled"]
    /\ UNCHANGED <<text, arg, fn, result, worker, signals>>

\* if self._cancelled or ...: the left operand
Worker_if_cancelled ==
    /\ pc.worker = "if_cancelled"
    /\ IF worker._cancelled
       THEN Finish(Emit(signals, "error"))
       ELSE /\ pc' = [pc EXCEPT !.worker = "if_approved"]
            /\ UNCHANGED signals
    /\ UNCHANGED <<text, arg, fn, result, frames, worker>>

\* ... or not self._preview_approved: the right operand; then progress(80)
\* and build_document.
Worker_if_approved ==
    /\ pc.worker = "if_approved"
    /\ IF ~worker._preview_approved
       THEN Finish(Emit(signals, "error"))
       ELSE \/ Finish(run_except(Emit(signals, "progress")))
            \/ /\ signals' = Emit(Emit(signals, "progress"), "progress")
               /\ pc' = [pc EXCEPT !.worker = "write"]
    /\ UNCHANGED <<text, arg, fn, result, frames, worker>>

\* write_exam_to_hwpx is called; when it returns, progress(100) and
\* finished.
Worker_write ==
    /\ pc.worker = "write"
    /\ frames' = [frames EXCEPT !.written = TRUE]
    /\ \E outcome \in Outcomes :
          IF outcome = "raise" THEN Raise_in_run
          ELSE Finish(Emit(Emit(signals, "progress"), "finished"))
    /\ UNCHANGED <<text, arg, fn, result, worker>>

\* _cancel_conversion: if self._worker: cancel(): self._cancelled = True
Gui_cancel ==
    /\ pc.cancel = "idle"
    /\ frames._worker
    /\ frames.cancels < MaxCancels
    /\ worker' = [worker EXCEPT !._cancelled = TRUE]
    /\ frames' = [frames EXCEPT !.cancels = @ + 1, !.in_wait = (pc.worker = "wait")]
    /\ pc' = [pc EXCEPT !.cancel = "set"]
    /\ UNCHANGED <<text, arg, fn, result, signals>>

\* cancel(): self._preview_event.set(), and cancel returns
Gui_cancel_set ==
    /\ pc.cancel = "set"
    /\ worker' = cancel_wake(worker)
    /\ pc' = [pc EXCEPT !.cancel = "idle"]
    /\ UNCHANGED <<text, arg, fn, result, frames, signals>>

\* _on_preview_requested: the dialog is closed with approved; if
\* self._worker: set_preview_result: self._preview_approved = approved
Gui_on_preview_requested ==
    /\ pc.preview = "queued"
    /\ \E approved \in BOOLEAN :
          IF frames._worker
          THEN /\ worker' = [worker EXCEPT !._preview_approved = approved]
               /\ pc' = [pc EXCEPT !.preview = "set"]
          ELSE /\ pc' = [pc EXCEPT !.preview = "idle"]
               /\ UNCHANGED worker
    /\ UNCHANGED <<text, arg, fn, result, frames, signals>>

\* set_preview_result: self._preview_event.set()
Gui_preview_set ==
    /\ pc.preview = "set"
    /\ worker' = [worker EXCEPT !._preview_event = TRUE]
    /\ pc' = [pc EXCEPT !.preview = "idle"]
    /\ UNCHANGED <<text, arg, fn, result, frames, signals>>

\* _cleanup_thread, on QThread.finished after the terminal signal made the
\* thread quit: self._worker = None
Gui_cleanup_thread ==
    /\ pc.worker = "done"
    /\ frames._worker
    /\ frames' = [frames EXCEPT !._worker = FALSE]
    /\ UNCHANGED <<text, arg, fn, result, pc, worker, signals>>

WorkerStep ==
    \/ Worker_load
    \/ Worker_gate1
    \/ Worker_gate1_end
    \/ Worker_ocr
    \/ Worker_clear
    \/ Worker_reset
    \/ Worker_request
    \/ Worker_wait
    \/ Worker_if_cancelled
    \/ Worker_if_approved
    \/ Worker_write

PreviewStep ==
    \/ Gui_on_preview_requested
    \/ Gui_preview_set

NextWorker ==
    \/ WorkerStep
    \/ PreviewStep
    \/ Gui_cancel
    \/ Gui_cancel_set
    \/ Gui_cleanup_thread

SpecWorker == InitWorker /\ [][NextWorker]_vars

\* The worker thread runs on while it can; the event loop of the GUI thread
\* delivers the queued preview request, and the dialog is closed at some
\* time.  Nothing makes the user press cancel, and a cancel() that has begun
\* goes on to its second statement.
SpecWorkerFair ==
    /\ SpecWorker
    /\ WF_vars(WorkerStep)
    /\ WF_vars(PreviewStep)
    /\ WF_vars(Gui_cancel_set)

----------------------------------------------------------------------------
(* The properties of the equation writer.  The definitions they are stated  *)
(* with do not use the definitions of the size functions, except where a    *)
(* property relates two results of one function.                            *)

\* The runs of a paragraph that hold an equation object.
EquationRuns(p) == {k \in DOMAIN p : p[k].kind = "equation"}

\* C21: the size of an equation is never below the floor: the heuristic
\* always returns a size, the measurement a size or None, and every width is
\* at least 800 and every height at least 1200, also for the empty string
\* and for markup that is structure only, and so is the size of every
\* equation object put into a paragraph.
C21_SizeNeverBelowFloor ==
    /\ fn = "_estimate_equation_size" =>
          /\ result.ret = "size"
          /\ result.items[1] >= 800 /\ result.items[2] >= 1200
    /\ fn = "_measure_latex_size" =>
          /\ result.ret \in {"size", "None"}
          /\ result.ret = "size" =>
                (result.items[1] >= 800 /\ result.items[2] >= 1200)
    /\ fn = "_insert_equation" =>
          \A k \in EquationRuns(result.items) :
              result.items[k].size[1] >= 800 /\ result.items[k].size[2] >= 1200

\* The markup "{}" has no visible character: the heuristic gives the floor.
C21_Witness ==
    /\ fn = "_estimate_equation_size"
    /\ text = <<"{", "}">>
    /\ result.items = <<800, 1200>>

\* The positions of s where a fraction separator starts.
SeparatorAt(s, i) == StartsAt(s, i, <<"o", "v", "e", "r">>) \/ StartsAt(s, i, <<"a", "t", "o", "p">>)

HasSeparator(s) == \E i \in 1..Len(s) : SeparatorAt(s, i)

\* The sides of the split of s at its fraction separators, from position i.
RECURSIVE SidesFrom(_, _)
SidesFrom(s, i) ==
    LET qs == {x \in i..Len(s) : SeparatorAt(s, x)}
    IN  IF qs = {} THEN {Slice(s, i, Len(s))}
        ELSE {Slice(s, i, SetMin(qs) - 1)} \cup SidesFrom(s, SetMin(qs) + 4)

\* The largest visible-character count of the sides, in halves.
MaxSideCount(s) == SetMax({visual_char_count(side) : side \in SidesFrom(s, 1)})

\* w * 1.4, the fraction cut off.
ScaledOnce(w) == (w * 14) \div 10

\* The width the rule of C22 gives.
FractionWidth(s) ==
    LET w0 == Max(Trunc(MaxSideCount(s) * 650, 2) + 200, 800)
    IN  IF Contains(s, <<"s", "q", "r", "t">>) \/ Contains(s, <<"r", "o", "o", "t">>)
        THEN ScaledOnce(ScaledOnce(w0)) ELSE ScaledOnce(w0)

\* C22: for markup with a fraction separator the width of the heuristic is
\* max(int(m * 650) + 200, 800) for the largest visible-character count m of
\* the sides, times 1.4 for the fraction and times 1.4 once more for a root,
\* cut to an integer after each multiplication.
C22_FractionWidthFromLargerSide ==
    (fn = "_estimate_equation_size" /\ HasSeparator(text)) =>
        result.items[1] = FractionWidth(text)

\* The keywords of list.
Keywords(list) == {list[k] : k \in DOMAIN list}

\* C23: a symbol, Greek-letter, operator or big-operator keyword counts as
\* one visible character whatever its length, a structural keyword as none.
C23_KeywordCountsOneOrNone ==
    fn = "_visual_char_count" =>
        /\ text \in Keywords(SYMBOL_KEYWORDS) \cup Keywords(LARGE_OP_KEYWORDS) =>
              result.items = 2
        /\ text \in Keywords(STRUCT_KEYWORDS) => result.items = 0

\* C24: the width of a fraction does not shrink when its numerator is
\* extended: for a fraction n over d and the fraction with one more
\* character at the end of n, the width of the second is at least the width
\* of the first.
C24_WidthMonotoneInNumerator ==
    fn = "_estimate_equation_size" =>
        \A n \in Strings(NumeratorAlphabet, MaxLenNumerator - 1) :
            \A d \in Denominators, c \in NumeratorAlphabet :
                text = FractionOf(n, d) =>
                    estimate_equation_size(FractionOf(n \o <<c>>, d))[1]
                        >= result.items[1]

\* One of the three outcomes of _insert_equation for the source latex.
IsOutcome(run, latex) ==
    \/ run.kind = "equation" /\ run.scripted
    \/ run.kind = "image"
    \/ run.kind = "text" /\ run.texted /\ run.value = <<"[">> \o latex \o <<"]">>

\* C25: _insert_equation never raises, and when it returns the paragraph has
\* got exactly one thing: the equation object, or the rendered image, or
\* the text "[latex]".
C25_InsertEndsWithOneOutcome ==
    fn = "_insert_equation" =>
        /\ result.ret = "None"
        /\ Len(result.items) = 1
        /\ IsOutcome(result.items[1], text)

\* C27: a failed measurement stays inside: _measure_latex_size returns None
\* and does not raise; _insert_equation then takes the size of the
\* heuristic for the transpiled markup and inserts the equation object, and
\* the image or the text is in the paragraph only when setting the markup
\* failed, never because of the measurement.
C27_MeasurementFailureStaysInside ==
    /\ (fn = "_measure_latex_size" /\ ~arg.available) => result.ret = "None"
    /\ (fn = "_insert_equation" /\ ~arg.metrics.available) =>
          /\ result.measured = "None"
          /\ Len(result.items) >= 1
          /\ result.items[1].kind = "equation"
          /\ result.items[1].size = estimate_equation_size(latex_to_hwpeq(text).s)
          /\ XmlCompatible(latex_to_hwpeq(text).s) =>
                (Len(result.items) = 1 /\ result.items[1].scripted)

\* Without the metrics "\frac{1}{2}" became an equation object of the
\* estimated size.
C27_Witness ==
    /\ fn = "_insert_equation"
    /\ ~arg.metrics.available
    /\ text = <<"\\", "f", "r", "a", "c", "{", "1", "}", "{", "2", "}">>
    /\ result.ret = "None"
    /\ result.items = <<EquationRun(<<"{", "1", "}", " ", "o", "v", "e", "r", " ", "{", "2", "}">>, <<1190, 2400>>, TRUE)>>

\* C30: the mixed heuristic loses no text: the values of the blocks
\* _split_mixed_text_equation returns are as long together as the input, and
\* every character of every block is the character of the input at the place
\* the block has in the sequence, so nothing is dropped, doubled or moved,
\* with or without an EQUATION block among them.
C30_MixedLosesNoText ==
    fn = "_split_mixed_text_equation" =>
        /\ TotalLen(SpanValues(result.items)) = Len(text)
        /\ \A k \in 1..Len(result.items) :
              \A j \in 1..Len(result.items[k].value) :
                  result.items[k].value[j] = text[SpanStart(result.items, k) + j - 1]

\* "a <U+AC00>" was split into the equation "a" and the text after it, blank
\* included.
C30_Witness ==
    /\ fn = "_split_mixed_text_equation"
    /\ text = <<"a", " ", "U+AC00">>
    /\ result.items = <<Block("EQUATION", <<"a">>), Block("TEXT", <<" ", "U+AC00">>)>>

\* C26: calls on several threads do not touch each other: whatever the
\* order of their steps, no call leaves anything in the _converter
\* instance, and every call that has returned gave its caller what the
\* function gives for that caller's argument when it runs alone.
C26_CallsDoNotInterfere ==
    /\ frames["_converter"] = NoFrame
    /\ \A t \in Threads :
          pc[t] = "done" =>
              result[t] = IF fn[t] = "latex_to_hwpeq"
                          THEN RetStr(latex_to_hwpeq(text[t]))
                          ELSE Segmented(fn[t], text[t])

\* One thread returned from latex_to_hwpeq with the converted fraction
\* while the other was in the stages of another call.
C26_Witness ==
    /\ pc["t1"] = "done" /\ fn["t1"] = "latex_to_hwpeq"
    /\ text["t1"] = <<"\\", "f", "r", "a", "c", "{", "1", "}", "{", "2", "}">>
    /\ result["t1"].items = <<"{", "1", "}", " ", "o", "v", "e", "r", " ", "{", "2", "}">>
    /\ pc["t2"] = "stage" /\ text["t2"] = <<"x", "^", "2">>
    /\ frames["t2"].k > 1

\* The terminal signals among the emitted ones, as positions in signals.
TerminalAt == {k \in DOMAIN signals : signals[k] \in Terminal}

\* At most one terminal signal was emitted, it is the last signal, and a
\* run that has returned has emitted one.
OneTerminal ==
    /\ Cardinality(TerminalAt) <= 1
    /\ TerminalAt \subseteq {Len(signals)}
    /\ pc.worker = "done" <=> TerminalAt # {}

C29_WrittenOnlyWhenApproved ==
    /\ frames.written =>
          /\ frames.resumed # <<>>
          /\ frames.resumed[1]._preview_approved
          /\ ~frames.resumed[1]._cancelled
    /\ (pc.worker = "wait" /\ frames.in_wait /\ pc.cancel = "idle") =>
          worker._preview_event

\* The file was written after an approved preview with no cancel before
\* the worker resumed; a cancel() came after the worker had read the flag.
C29_Witness ==
    /\ frames.written
    /\ frames.resumed[1]._preview_approved /\ ~frames.resumed[1]._cancelled
    /\ worker._cancelled
    /\ signals[Len(signals)] = "finished"

====
